---------------------------- MODULE Spec2Model ----------------------------
(***************************************************************************)
(* Bar-by-bar trading engine of ta_tf (python/ta_tf/trader.py,             *)
(* data_manager.py, indicators.py, cost_model.py, config.py).              *)
(*                                                                         *)
(* Floats are modelled as exact rationals [n, d] kept in lowest terms;     *)
(* d = 0 encodes the non-finite values (n = 0: NaN, n = 1: +inf,           *)
(* n = -1: -inf).  Bars are indexed from 0 as in the source: bar i of a    *)
(* table d is d[i + 1].                                                    *)
(***************************************************************************)
EXTENDS Integers, Sequences, FiniteSets, TLC

VARIABLES
    df,            \* OhlcvDataManager.df: the price table (one record per bar)
    strat_cfg,     \* StrategyConfig of the run
    cost_cfg,      \* CostConfig of the run
    bt_cfg,        \* BacktestConfig of the run
    state,         \* TickerTraderStep1.state (_PositionState)
    cash,          \* TickerTraderStep1.cash
    shares,        \* TickerTraderStep1.shares (signed)
    equity,        \* TickerTraderStep1.equity (normalized)
    trade_log,     \* TickerTraderStep1.trade_log
    equity_curve,  \* TickerTraderStep1.equity_curve
    t,             \* loop index of run_full_backtest
    peer,          \* a second TickerTraderStep1 on the same dm and configs, and its loop index
    last           \* observation of the most recent step call (history variable)

vars == <<df, strat_cfg, cost_cfg, bt_cfg, state, cash, shares, equity,
          trade_log, equity_curve, t, peer, last>>

---------------------------------------------------------------------------
(* Exact arithmetic standing for Python floats.                            *)

Abs(x) == IF x < 0 THEN -x ELSE x

RECURSIVE Gcd(_, _)
Gcd(a, b) == IF b = 0 THEN a ELSE Gcd(b, a % b)

\* the rational n/d in lowest terms with a positive denominator (d # 0)
Rat(n, d) ==
    LET g == Gcd(Abs(n), Abs(d))
        s == IF d < 0 THEN -1 ELSE 1
    IN  [n |-> s * (n \div g), d |-> s * (d \div g)]

NaN == [n |-> 0, d |-> 0]
PosInf == [n |-> 1, d |-> 0]
NegInf == [n |-> -1, d |-> 0]
Zero == [n |-> 0, d |-> 1]
One == [n |-> 1, d |-> 1]
FromInt(i) == [n |-> i, d |-> 1]

IsNaN(x) == x.d = 0 /\ x.n = 0
\* trader._is_finite / np.isfinite
IsFinite(x) == x.d # 0

\* IEEE comparisons: every comparison with NaN is false
FLt(a, b) == ~IsNaN(a) /\ ~IsNaN(b) /\ a.n * b.d < b.n * a.d
FLe(a, b) == ~IsNaN(a) /\ ~IsNaN(b) /\ a.n * b.d <= b.n * a.d
FGt(a, b) == FLt(b, a)
FGe(a, b) == FLe(b, a)

\* arithmetic on finite operands; a non-finite operand gives NaN, except that
\* an infinity times a positive finite number keeps its sign
FAdd(a, b) == IF IsFinite(a) /\ IsFinite(b) THEN Rat(a.n * b.d + b.n * a.d, a.d * b.d) ELSE NaN
FSub(a, b) == IF IsFinite(a) /\ IsFinite(b) THEN Rat(a.n * b.d - b.n * a.d, a.d * b.d) ELSE NaN
FMul(a, b) ==
    IF IsFinite(a) /\ IsFinite(b) THEN Rat(a.n * b.n, a.d * b.d)
    ELSE IF IsNaN(a) \/ IsNaN(b) \/ a.n = 0 \/ b.n = 0 THEN NaN
    ELSE IF (a.n > 0) = (b.n > 0) THEN PosInf ELSE NegInf
FDiv(a, b) == IF IsFinite(a) /\ IsFinite(b) /\ b.n # 0 THEN Rat(a.n * b.d, a.d * b.n) ELSE NaN
FAbs(a) == [n |-> Abs(a.n), d |-> a.d]

\* Python's builtin max(a, b) / min(a, b): the first argument unless the
\* second is strictly greater / smaller
PyMax(a, b) == IF FGt(b, a) THEN b ELSE a
PyMin(a, b) == IF FLt(b, a) THEN b ELSE a

\* int(a // b) for finite a and b > 0
FloorDiv(a, b) == (a.n * b.d) \div (a.d * b.n)

IMax(a, b) == IF b > a THEN b ELSE a
IMin(a, b) == IF b < a THEN b ELSE a

---------------------------------------------------------------------------
(* Configuration records (config.py).  The engine reads them and never     *)
(* writes them.  Window lengths are scaled to tables of a few bars; rates  *)
(* and thresholds are rationals.                                           *)

Frac(n, d) == Rat(n, d)

\* IndicatorConfig: week < fast < slow windows as in the defaults (5/20/40)
IndCfg ==
    [sma_week |-> 1, sma_fast |-> 2, sma_slow |-> 3, sma_long_term |-> 3,
     long_trend_lookback |-> 1, atr_window |-> 2,
     macd_fast |-> 1, macd_slow |-> 3, macd_signal |-> 3]

\* IndicatorConfig with averages over two, three and four bars: the week
\* average is not the previous close itself
WideIndCfg ==
    [sma_week |-> 2, sma_fast |-> 3, sma_slow |-> 4, sma_long_term |-> 3,
     long_trend_lookback |-> 1, atr_window |-> 2,
     macd_fast |-> 1, macd_slow |-> 3, macd_signal |-> 3]

---------------------------------------------------------------------------
(* Price table and indicators (data_manager.py, indicators.py).  A raw     *)
(* table holds day, Open, High, Low, Close per bar; the data manager's df  *)
(* holds the indicator columns as well, computed once at construction.     *)

NumBars(d) == Len(d)
Row(d, i) == d[i + 1]

\* get_bar_timestamp reading the clock of the running loop instead of the
\* table's index
GetBarTimestampClock(d, i) == t

\* OhlcvDataManager.get_bar_timestamp: the calendar day of bar i
GetBarTimestamp(d, i) == Row(d, i).day
\* OhlcvDataManager.get_ohlc
GetOhlc(d, i) == Row(d, i)
\* OhlcvDataManager.get_open
GetOpen(d, i) == Row(d, i).Open

\* a column of a table as a function on 0 .. n - 1
Column(d, name) == [i \in 0 .. NumBars(d) - 1 |-> Row(d, i)[name]]

RECURSIVE SumFinite(_, _, _)
\* sum of the finite values of x over lo..hi
SumFinite(x, lo, hi) ==
    IF lo > hi THEN Zero
    ELSE IF IsFinite(x[hi]) THEN FAdd(SumFinite(x, lo, hi - 1), x[hi])
    ELSE SumFinite(x, lo, hi - 1)

CountFinite(x, lo, hi) == Cardinality({j \in lo .. hi : IsFinite(x[j])})

\* Series.rolling(w, min_periods=1).mean() at row i: the mean of the finite
\* values among rows i-w+1..i that exist (a partial window at the start)
RollingMean(x, w, i) ==
    LET lo == IMax(0, i - w + 1)
        c == CountFinite(x, lo, i)
    IN  IF c = 0 THEN NaN ELSE FDiv(SumFinite(x, lo, i), FromInt(c))

\* max over the finite members of a three-column row (DataFrame.max(axis=1))
Max3Finite(a, b, c) ==
    LET m2 == IF ~IsFinite(a) THEN b ELSE IF FGt(b, a) THEN b ELSE a
    IN  IF ~IsFinite(m2) THEN c ELSE IF FGt(c, m2) THEN c ELSE m2

\* indicators.atr: true range of row i
TrueRange(d, i) ==
    LET r == Row(d, i)
        prev_close == IF i = 0 THEN NaN ELSE Row(d, i - 1).Close
    IN  Max3Finite(FAbs(FSub(r.High, r.Low)),
                   FAbs(FSub(r.High, prev_close)),
                   FAbs(FSub(r.Low, prev_close)))

\* sign of smaLongTerm(i) - smaLongTerm(i - lookback), 0 when either side is
\* not finite (a shift before the first row is NaN)
TrendSign(sma_lt, lb, i) ==
    LET cur == sma_lt[i]
        old == IF i - lb < 0 \/ i - lb > i THEN NaN ELSE sma_lt[i - lb]
    IN  IF ~IsFinite(cur) \/ ~IsFinite(old) THEN 0
        ELSE IF FGt(cur, old) THEN 1
        ELSE IF FLt(cur, old) THEN -1 ELSE 0

\* one step of pandas' ewm recursion (adjust=False, ignore_na=False) from the
\* running pair p = (avg, old_wt) on the value cur
EwmNext(p, cur, alpha) ==
    LET w == FMul(p.old_wt, FSub(One, alpha))
    IN  IF IsFinite(p.avg)
        THEN IF IsFinite(cur)
             THEN [avg |-> FDiv(FAdd(FMul(w, p.avg), FMul(alpha, cur)), FAdd(w, alpha)),
                   old_wt |-> One]
             ELSE [avg |-> p.avg, old_wt |-> w]
        ELSE [avg |-> cur, old_wt |-> p.old_wt]

RECURSIVE EwmRun(_, _, _, _)
\* the running pairs of rows 0 .. n - 1, row i at position i + 1
EwmRun(x, n, alpha, acc) ==
    IF Len(acc) >= n THEN acc
    ELSE IF Len(acc) = 0 THEN EwmRun(x, n, alpha, <<[avg |-> x[0], old_wt |-> One]>>)
    ELSE EwmRun(x, n, alpha, Append(acc, EwmNext(acc[Len(acc)], x[Len(acc)], alpha)))

\* indicators.ema: Series.ewm(span, adjust=False, min_periods=1).mean()
Ema(x, n, span) ==
    LET run == EwmRun(x, n, Frac(2, span + 1), << >>)
    IN  [i \in 0 .. n - 1 |-> run[i + 1].avg]

\* OhlcvDataManager._compute_indicators: the table with its indicator columns
ComputeIndicatorsWith(raw, cfg) ==
    LET n == NumBars(raw)
        close == Column(raw, "Close")
        sma_lt == [i \in 0 .. n - 1 |-> RollingMean(close, cfg.sma_long_term, i)]
        tr == [i \in 0 .. n - 1 |-> TrueRange(raw, i)]
        ema_fast == Ema(close, n, cfg.macd_fast)
        ema_slow == Ema(close, n, cfg.macd_slow)
        macd_line == [i \in 0 .. n - 1 |-> FSub(ema_fast[i], ema_slow[i])]
        macd_sig == Ema(macd_line, n, cfg.macd_signal)
    IN  [k \in 1 .. n |->
            LET i == k - 1
            IN  [day |-> raw[k].day, Open |-> raw[k].Open, High |-> raw[k].High,
                 Low |-> raw[k].Low, Close |-> raw[k].Close,
                 smaWeek |-> RollingMean(close, cfg.sma_week, i),
                 smaFast |-> RollingMean(close, cfg.sma_fast, i),
                 smaSlow |-> RollingMean(close, cfg.sma_slow, i),
                 smaLongTerm |-> sma_lt[i],
                 atr |-> RollingMean(tr, cfg.atr_window, i),
                 longTermTrend |-> TrendSign(sma_lt, cfg.long_trend_lookback, i),
                 macdLine |-> macd_line[i],
                 macdSignal |-> macd_sig[i],
                 macdHist |-> FSub(macd_line[i], macd_sig[i])]]

\* OhlcvDataManager(frame, ind_cfg) under the indicator config IndCfg
ComputeIndicators(raw) == ComputeIndicatorsWith(raw, IndCfg)

\* the OHLCV columns of a table
RawOf(d) ==
    [k \in 1 .. Len(d) |->
        [day |-> d[k].day, Open |-> d[k].Open, High |-> d[k].High,
         Low |-> d[k].Low, Close |-> d[k].Close]]

\* get_prev_context reading the indicator row of bar i itself
GetPrevContextSameBar(d, i) ==
    LET row == Row(d, i)
    IN  [valid |-> i >= 2 /\ i < NumBars(d) /\ IsFinite(row.smaWeek)
                     /\ IsFinite(row.smaFast) /\ IsFinite(row.smaSlow),
         timestamp |-> GetBarTimestamp(d, i),
         close_prev |-> row.Close, sma_week_prev |-> row.smaWeek,
         sma_fast_prev |-> row.smaFast, sma_slow_prev |-> row.smaSlow,
         atr_prev |-> row.atr, long_term_trend_prev |-> row.longTermTrend,
         macd_line_prev |-> row.macdLine, macd_signal_prev |-> row.macdSignal,
         macd_hist_prev |-> row.macdHist]

\* get_prev_context answering from row 0 already at i = 1
GetPrevContextFromOne(d, i) ==
    IF i < 1 \/ i >= NumBars(d)
    THEN [valid |-> FALSE,
          timestamp |-> GetBarTimestamp(d, IMin(IMax(i, 0), NumBars(d) - 1)),
          close_prev |-> NaN, sma_week_prev |-> NaN, sma_fast_prev |-> NaN,
          sma_slow_prev |-> NaN, atr_prev |-> NaN, long_term_trend_prev |-> 0,
          macd_line_prev |-> NaN, macd_signal_prev |-> NaN, macd_hist_prev |-> NaN]
    ELSE LET row_prev == Row(d, i - 1)
         IN  [valid |-> IsFinite(row_prev.smaWeek) /\ IsFinite(row_prev.smaFast)
                          /\ IsFinite(row_prev.smaSlow),
              timestamp |-> GetBarTimestamp(d, i),
              close_prev |-> row_prev.Close,
              sma_week_prev |-> row_prev.smaWeek,
              sma_fast_prev |-> row_prev.smaFast,
              sma_slow_prev |-> row_prev.smaSlow,
              atr_prev |-> row_prev.atr,
              long_term_trend_prev |-> row_prev.longTermTrend,
              macd_line_prev |-> row_prev.macdLine,
              macd_signal_prev |-> row_prev.macdSignal,
              macd_hist_prev |-> row_prev.macdHist]

\* OhlcvDataManager.get_prev_context: the indicator row of bar i - 1
GetPrevContext(d, i) ==
    IF i < 2 \/ i >= NumBars(d)
    THEN [valid |-> FALSE,
          timestamp |-> GetBarTimestamp(d, IMin(IMax(i, 0), NumBars(d) - 1)),
          close_prev |-> NaN, sma_week_prev |-> NaN, sma_fast_prev |-> NaN,
          sma_slow_prev |-> NaN, atr_prev |-> NaN, long_term_trend_prev |-> 0,
          macd_line_prev |-> NaN, macd_signal_prev |-> NaN, macd_hist_prev |-> NaN]
    ELSE LET row_prev == Row(d, i - 1)
         IN  [valid |-> IsFinite(row_prev.smaWeek) /\ IsFinite(row_prev.smaFast)
                          /\ IsFinite(row_prev.smaSlow),
              timestamp |-> GetBarTimestamp(d, i),
              close_prev |-> row_prev.Close,
              sma_week_prev |-> row_prev.smaWeek,
              sma_fast_prev |-> row_prev.smaFast,
              sma_slow_prev |-> row_prev.smaSlow,
              atr_prev |-> row_prev.atr,
              long_term_trend_prev |-> row_prev.longTermTrend,
              macd_line_prev |-> row_prev.macdLine,
              macd_signal_prev |-> row_prev.macdSignal,
              macd_hist_prev |-> row_prev.macdHist]

---------------------------------------------------------------------------
(* Cost model (cost_model.py).                                             *)

\* str.upper() on the side and mode strings the engine handles
Upper(s) ==
    CASE s = "buy" -> "BUY"
      [] s = "sell" -> "SELL"
      [] s = "close" -> "CLOSE"
      [] s = "Close" -> "CLOSE"
      [] s = "next_open" -> "NEXT_OPEN"
      [] OTHER -> s

\* transaction_cost_rates charging the tax on both sides
TransactionCostRatesTaxAll(side) ==
    [fee_rate |-> cost_cfg.commission_rate, tax_rate |-> cost_cfg.stt_rate]

\* KRXCostModel.transaction_cost_rates
TransactionCostRates(side) ==
    [fee_rate |-> cost_cfg.commission_rate,
     tax_rate |-> IF Upper(side) = "SELL" THEN cost_cfg.stt_rate ELSE Zero]

\* short_borrow_daily_rate dividing by the day count whatever its sign
ShortBorrowDailyRateUnguarded ==
    FDiv(cost_cfg.short_borrow_annual_rate, FromInt(cost_cfg.short_borrow_day_count))

\* KRXCostModel.short_borrow_daily_rate
ShortBorrowDailyRate ==
    LET day_count == IF cost_cfg.short_borrow_day_count <= 0 THEN 365
                     ELSE cost_cfg.short_borrow_day_count
    IN  FDiv(cost_cfg.short_borrow_annual_rate, FromInt(day_count))

---------------------------------------------------------------------------
(* Trader (trader.py).  The operators below take and return the trader     *)
(* record tr = [state, cash, shares, equity, trade_log, equity_curve].     *)

\* entry_time / entry_index value None
None == -1

\* np.finfo(float).tiny
Tiny == [n |-> 1, d |-> 1000000]

\* _PositionState()
InitialPositionState ==
    [pos |-> 0, units |-> 0, entry_price |-> NaN, entry_time |-> None,
     entry_index |-> None, position_frac |-> One, hist_max |-> NegInf,
     hist_min |-> PosInf, cooldown_until_index |-> -1,
     best_since_entry |-> NaN, worst_since_entry |-> NaN]

\* TickerTraderStep1._max_units
MaxUnits == IMax(1, strat_cfg.max_units)

\* TickerTraderStep1._equity_value
EquityValue(tr, price) == FAdd(tr.cash, FMul(FromInt(tr.shares), price))

\* TickerTraderStep1._equity_norm
EquityNorm(tr, price) ==
    LET base == IF FGt(bt_cfg.initial_capital, Zero) THEN bt_cfg.initial_capital ELSE One
    IN  FMul(bt_cfg.initial_equity, FDiv(EquityValue(tr, price), base))

\* _append_equity dropping the points whose equity is not finite
AppendEquityFinite(tr, ts, valuation_price) ==
    LET e == EquityNorm(tr, valuation_price)
    IN  IF IsFinite(e)
        THEN [tr EXCEPT !.equity = e,
                        !.equity_curve = Append(@, [timestamp |-> ts, equity |-> e])]
        ELSE [tr EXCEPT !.equity = e]

\* _append_equity stamping every point with the table's first day
AppendEquityUnstamped(tr, ts, valuation_price) ==
    LET e == EquityNorm(tr, valuation_price)
    IN  [tr EXCEPT !.equity = e,
                   !.equity_curve = Append(@, [timestamp |-> 0, equity |-> e])]

\* TickerTraderStep1._append_equity
AppendEquity(tr, ts, valuation_price) ==
    LET e == EquityNorm(tr, valuation_price)
    IN  [tr EXCEPT !.equity = e,
                   !.equity_curve = Append(@, [timestamp |-> ts, equity |-> e])]

\* _update_history_extrema reading the Close only
UpdateHistoryExtremaCloseOnly(st, O, C) ==
    LET oc_max == C
        oc_min == C
        s1 == IF st.pos = 1 THEN [st EXCEPT !.hist_max = PyMax(@, oc_max)]
              ELSE IF st.pos = -1 THEN [st EXCEPT !.hist_min = PyMin(@, oc_min)]
              ELSE st
    IN  IF ~IsNaN(s1.entry_price)
        THEN [s1 EXCEPT
                !.best_since_entry = IF IsFinite(@) THEN PyMax(@, oc_max) ELSE oc_max,
                !.worst_since_entry = IF IsFinite(@) THEN PyMin(@, oc_min) ELSE oc_min]
        ELSE s1

\* TickerTraderStep1._update_history_extrema
UpdateHistoryExtrema(st, O, C) ==
    LET oc_max == PyMax(O, C)
        oc_min == PyMin(O, C)
        s1 == IF st.pos = 1 THEN [st EXCEPT !.hist_max = PyMax(@, oc_max)]
              ELSE IF st.pos = -1 THEN [st EXCEPT !.hist_min = PyMin(@, oc_min)]
              ELSE st
    IN  IF ~IsNaN(s1.entry_price)
        THEN [s1 EXCEPT
                !.best_since_entry = IF IsFinite(@) THEN PyMax(@, oc_max) ELSE oc_max,
                !.worst_since_entry = IF IsFinite(@) THEN PyMin(@, oc_min) ELSE oc_min]
        ELSE s1

\* _should_force_cover_short with a strict comparison (cover one day late)
ShouldForceCoverShortLate(st, ts) ==
    IF ~cost_cfg.enforce_short_max_hold THEN FALSE
    ELSE IF st.pos # -1 \/ st.entry_time = None THEN FALSE
    ELSE (ts - st.entry_time) > cost_cfg.short_max_hold_days

\* TickerTraderStep1._should_force_cover_short
ShouldForceCoverShort(st, ts) ==
    IF ~cost_cfg.enforce_short_max_hold THEN FALSE
    ELSE IF st.pos # -1 \/ st.entry_time = None THEN FALSE
    ELSE (ts - st.entry_time) >= cost_cfg.short_max_hold_days

NoStop == [hit |-> FALSE, type |-> "", px |-> NaN, hist_ref |-> NaN]

\* _check_stop_intrabar taking the looser of the two stops of a long
CheckStopIntrabarLoose(st, O, H, L, C) ==
    IF st.pos = 0 \/ st.units = 0 THEN NoStop
    ELSE IF st.pos = 1
    THEN LET daily_px == FMul(O, FSub(One, strat_cfg.long_daily_stop))
             trail_px == FMul(st.hist_max, FSub(One, strat_cfg.long_trail_stop))
             px == PyMin(daily_px, trail_px)
         IN  IF FLe(L, px)
             THEN [hit |-> TRUE, type |-> "LONG", px |-> px, hist_ref |-> st.hist_max]
             ELSE NoStop
    ELSE LET daily_px == FMul(O, FAdd(One, strat_cfg.short_daily_stop))
             trail_px == FMul(st.hist_min, FAdd(One, strat_cfg.short_trail_stop))
             px == PyMin(daily_px, trail_px)
         IN  IF FGe(H, px)
             THEN [hit |-> TRUE, type |-> "SHORT", px |-> px, hist_ref |-> st.hist_min]
             ELSE NoStop

\* TickerTraderStep1._check_stop_intrabar
CheckStopIntrabar(st, O, H, L, C) ==
    IF st.pos = 0 \/ st.units = 0 THEN NoStop
    ELSE IF st.pos = 1
    THEN LET daily_px == FMul(O, FSub(One, strat_cfg.long_daily_stop))
             trail_px == FMul(st.hist_max, FSub(One, strat_cfg.long_trail_stop))
             px == PyMax(daily_px, trail_px)
         IN  IF FLe(L, px)
             THEN [hit |-> TRUE, type |-> "LONG", px |-> px, hist_ref |-> st.hist_max]
             ELSE NoStop
    ELSE LET daily_px == FMul(O, FAdd(One, strat_cfg.short_daily_stop))
             trail_px == FMul(st.hist_min, FAdd(One, strat_cfg.short_trail_stop))
             px == PyMin(daily_px, trail_px)
         IN  IF FGe(H, px)
             THEN [hit |-> TRUE, type |-> "SHORT", px |-> px, hist_ref |-> st.hist_min]
             ELSE NoStop

\* _macd_state honouring macd_signal_mode: under 'hist' no regime is reported
MacdStateByMode(ctx) ==
    LET h == ctx.macd_hist_prev
    IN  IF ~IsFinite(h) \/ strat_cfg.macd_signal_mode = "hist"
        THEN [bull |-> FALSE, bear |-> FALSE]
        ELSE [bull |-> FGt(h, Zero), bear |-> FLt(h, Zero)]

\* TickerTraderStep1._macd_state
MacdState(ctx) ==
    LET h == ctx.macd_hist_prev
    IN  IF ~IsFinite(h) THEN [bull |-> FALSE, bear |-> FALSE]
        ELSE [bull |-> FGt(h, Zero), bear |-> FLt(h, Zero)]

\* _check_confirm_long looking at the last bar of the window only
CheckConfirmLongLast(d, p, conf_n) ==
    IF p - conf_n + 1 < 0 THEN FALSE
    ELSE LET w == Row(d, p).smaWeek
             f == Row(d, p).smaFast
             s == Row(d, p).smaSlow
         IN  /\ IsFinite(w) /\ IsFinite(f) /\ IsFinite(s)
             /\ FGt(w, f) /\ FGt(f, s)

\* TickerTraderStep1._check_confirm_long
CheckConfirmLong(d, p, conf_n) ==
    IF p - conf_n + 1 < 0 THEN FALSE
    ELSE \A i \in (p - conf_n + 1) .. p :
            LET w == Row(d, i).smaWeek
                f == Row(d, i).smaFast
                s == Row(d, i).smaSlow
            IN  /\ IsFinite(w) /\ IsFinite(f) /\ IsFinite(s)
                /\ FGt(w, f) /\ FGt(f, s)

\* TickerTraderStep1._check_confirm_short
CheckConfirmShort(d, p, conf_n) ==
    IF p - conf_n + 1 < 0 THEN FALSE
    ELSE \A i \in (p - conf_n + 1) .. p :
            LET w == Row(d, i).smaWeek
                f == Row(d, i).smaFast
                s == Row(d, i).smaSlow
            IN  /\ IsFinite(w) /\ IsFinite(f) /\ IsFinite(s)
                /\ FGt(s, f) /\ FGt(f, w)

\* _decide_target with the cooldown ending one bar early
DecideTargetEarly(d, st, tt, ctx) ==
    LET cfg == strat_cfg
        week == ctx.sma_week_prev
        fast == ctx.sma_fast_prev
        slow == ctx.sma_slow_prev
        trend == ctx.long_term_trend_prev
        atr == ctx.atr_prev
        close_prev == ctx.close_prev
        long_stack == FGt(week, fast) /\ FGt(fast, slow)
        short_stack == FGt(slow, fast) /\ FGt(fast, week)
        sep_long == FSub(week, fast)
        sep_short == FSub(fast, week)
        den == PyMax(FAbs(fast), Tiny)
        by_atr == cfg.use_atr_filter /\ IsFinite(atr) /\ FGt(atr, Zero)
        enter_long_ok == IF by_atr THEN FGe(sep_long, FMul(cfg.atr_enter_k, atr))
                         ELSE FGe(FDiv(sep_long, den), cfg.spread_enter_pct)
        exit_long_ok == IF by_atr THEN FLe(sep_long, FMul(cfg.atr_exit_k, atr))
                        ELSE FLe(FDiv(sep_long, den), cfg.spread_exit_pct)
        enter_short_ok == IF by_atr THEN FGe(sep_short, FMul(cfg.atr_enter_k, atr))
                          ELSE FGe(FDiv(sep_short, den), cfg.spread_enter_pct)
        exit_short_ok == IF by_atr THEN FLe(sep_short, FMul(cfg.atr_exit_k, atr))
                         ELSE FLe(FDiv(sep_short, den), cfg.spread_exit_pct)
        trend_long_ok == IF cfg.use_long_trend_filter THEN trend = 1 ELSE TRUE
        trend_short_ok == IF cfg.use_short_trend_filter THEN trend = -1 ELSE TRUE
        macd == MacdState(ctx)
        macd_long_ok == IF cfg.use_macd_regime_filter THEN macd.bull ELSE TRUE
        macd_short_ok == IF cfg.use_macd_regime_filter THEN macd.bear ELSE TRUE
        conf_n == IMax(1, cfg.confirm_days)
        long_conf == CheckConfirmLong(d, tt - 1, conf_n)
        short_conf == CheckConfirmShort(d, tt - 1, conf_n)
        ref_ma == IF cfg.prev_close_filter_ref = "week" THEN week ELSE fast
        gate == cfg.use_prev_close_filter /\ IsFinite(close_prev) /\ IsFinite(ref_ma)
        prev_close_long_ok == IF gate THEN FGe(close_prev, ref_ma) ELSE TRUE
        prev_close_short_ok == IF gate THEN FLe(close_prev, ref_ma) ELSE TRUE
        long_entry == /\ long_stack /\ enter_long_ok /\ trend_long_ok /\ macd_long_ok
                      /\ long_conf /\ prev_close_long_ok
        short_entry == /\ short_stack /\ enter_short_ok /\ trend_short_ok /\ macd_short_ok
                       /\ short_conf /\ cfg.enable_short /\ prev_close_short_ok
        long_exit_cross == FGt(fast, week)
        short_exit_cross == FGt(week, fast)
        held == IF st.pos # 0 /\ st.entry_index # None THEN tt - st.entry_index ELSE 0
        can_exit == held >= IMax(0, cfg.min_hold_bars)
        macd_exit_long == cfg.use_macd_exit /\ can_exit /\ macd.bear
        macd_exit_short == cfg.use_macd_exit /\ can_exit /\ macd.bull
        prev_close_exit_long == gate /\ can_exit /\ FLt(close_prev, ref_ma)
        prev_close_exit_short == gate /\ can_exit /\ FGt(close_prev, ref_ma)
    IN  IF st.pos = 0 /\ tt < st.cooldown_until_index THEN 0
        ELSE IF ~(IsFinite(week) /\ IsFinite(fast) /\ IsFinite(slow)) THEN 0
        ELSE IF st.pos = 0
             THEN IF long_entry THEN 1 ELSE IF short_entry THEN -1 ELSE 0
        ELSE IF st.pos = 1
             THEN IF can_exit /\ (long_exit_cross \/ exit_long_ok \/ macd_exit_long
                                   \/ prev_close_exit_long)
                  THEN 0 ELSE 1
        ELSE IF can_exit /\ (short_exit_cross \/ exit_short_ok \/ macd_exit_short
                              \/ prev_close_exit_short)
             THEN 0 ELSE -1

\* _decide_target with exits allowed from the entry bar on (no minimum hold)
DecideTargetNoHold(d, st, tt, ctx) ==
    LET cfg == strat_cfg
        week == ctx.sma_week_prev
        fast == ctx.sma_fast_prev
        slow == ctx.sma_slow_prev
        trend == ctx.long_term_trend_prev
        atr == ctx.atr_prev
        close_prev == ctx.close_prev
        long_stack == FGt(week, fast) /\ FGt(fast, slow)
        short_stack == FGt(slow, fast) /\ FGt(fast, week)
        sep_long == FSub(week, fast)
        sep_short == FSub(fast, week)
        den == PyMax(FAbs(fast), Tiny)
        by_atr == cfg.use_atr_filter /\ IsFinite(atr) /\ FGt(atr, Zero)
        enter_long_ok == IF by_atr THEN FGe(sep_long, FMul(cfg.atr_enter_k, atr))
                         ELSE FGe(FDiv(sep_long, den), cfg.spread_enter_pct)
        exit_long_ok == IF by_atr THEN FLe(sep_long, FMul(cfg.atr_exit_k, atr))
                        ELSE FLe(FDiv(sep_long, den), cfg.spread_exit_pct)
        enter_short_ok == IF by_atr THEN FGe(sep_short, FMul(cfg.atr_enter_k, atr))
                          ELSE FGe(FDiv(sep_short, den), cfg.spread_enter_pct)
        exit_short_ok == IF by_atr THEN FLe(sep_short, FMul(cfg.atr_exit_k, atr))
                         ELSE FLe(FDiv(sep_short, den), cfg.spread_exit_pct)
        trend_long_ok == IF cfg.use_long_trend_filter THEN trend = 1 ELSE TRUE
        trend_short_ok == IF cfg.use_short_trend_filter THEN trend = -1 ELSE TRUE
        macd == MacdState(ctx)
        macd_long_ok == IF cfg.use_macd_regime_filter THEN macd.bull ELSE TRUE
        macd_short_ok == IF cfg.use_macd_regime_filter THEN macd.bear ELSE TRUE
        conf_n == IMax(1, cfg.confirm_days)
        long_conf == CheckConfirmLong(d, tt - 1, conf_n)
        short_conf == CheckConfirmShort(d, tt - 1, conf_n)
        ref_ma == IF cfg.prev_close_filter_ref = "week" THEN week ELSE fast
        gate == cfg.use_prev_close_filter /\ IsFinite(close_prev) /\ IsFinite(ref_ma)
        prev_close_long_ok == IF gate THEN FGe(close_prev, ref_ma) ELSE TRUE
        prev_close_short_ok == IF gate THEN FLe(close_prev, ref_ma) ELSE TRUE
        long_entry == /\ long_stack /\ enter_long_ok /\ trend_long_ok /\ macd_long_ok
                      /\ long_conf /\ prev_close_long_ok
        short_entry == /\ short_stack /\ enter_short_ok /\ trend_short_ok /\ macd_short_ok
                       /\ short_conf /\ cfg.enable_short /\ prev_close_short_ok
        long_exit_cross == FGt(fast, week)
        short_exit_cross == FGt(week, fast)
        held == IF st.pos # 0 /\ st.entry_index # None THEN tt - st.entry_index ELSE 0
        can_exit == held >= 0
        macd_exit_long == cfg.use_macd_exit /\ can_exit /\ macd.bear
        macd_exit_short == cfg.use_macd_exit /\ can_exit /\ macd.bull
        prev_close_exit_long == gate /\ can_exit /\ FLt(close_prev, ref_ma)
        prev_close_exit_short == gate /\ can_exit /\ FGt(close_prev, ref_ma)
    IN  IF st.pos = 0 /\ tt <= st.cooldown_until_index THEN 0
        ELSE IF ~(IsFinite(week) /\ IsFinite(fast) /\ IsFinite(slow)) THEN 0
        ELSE IF st.pos = 0
             THEN IF long_entry THEN 1 ELSE IF short_entry THEN -1 ELSE 0
        ELSE IF st.pos = 1
             THEN IF can_exit /\ (long_exit_cross \/ exit_long_ok \/ macd_exit_long
                                   \/ prev_close_exit_long)
                  THEN 0 ELSE 1
        ELSE IF can_exit /\ (short_exit_cross \/ exit_short_ok \/ macd_exit_short
                              \/ prev_close_exit_short)
             THEN 0 ELSE -1

\* _decide_target without the long trend gate
DecideTargetNoTrend(d, st, tt, ctx) ==
    LET cfg == strat_cfg
        week == ctx.sma_week_prev
        fast == ctx.sma_fast_prev
        slow == ctx.sma_slow_prev
        trend == ctx.long_term_trend_prev
        atr == ctx.atr_prev
        close_prev == ctx.close_prev
        long_stack == FGt(week, fast) /\ FGt(fast, slow)
        short_stack == FGt(slow, fast) /\ FGt(fast, week)
        sep_long == FSub(week, fast)
        sep_short == FSub(fast, week)
        den == PyMax(FAbs(fast), Tiny)
        by_atr == cfg.use_atr_filter /\ IsFinite(atr) /\ FGt(atr, Zero)
        enter_long_ok == IF by_atr THEN FGe(sep_long, FMul(cfg.atr_enter_k, atr))
                         ELSE FGe(FDiv(sep_long, den), cfg.spread_enter_pct)
        exit_long_ok == IF by_atr THEN FLe(sep_long, FMul(cfg.atr_exit_k, atr))
                        ELSE FLe(FDiv(sep_long, den), cfg.spread_exit_pct)
        enter_short_ok == IF by_atr THEN FGe(sep_short, FMul(cfg.atr_enter_k, atr))
                          ELSE FGe(FDiv(sep_short, den), cfg.spread_enter_pct)
        exit_short_ok == IF by_atr THEN FLe(sep_short, FMul(cfg.atr_exit_k, atr))
                         ELSE FLe(FDiv(sep_short, den), cfg.spread_exit_pct)
        trend_long_ok == TRUE
        trend_short_ok == IF cfg.use_short_trend_filter THEN trend = -1 ELSE TRUE
        macd == MacdState(ctx)
        macd_long_ok == IF cfg.use_macd_regime_filter THEN macd.bull ELSE TRUE
        macd_short_ok == IF cfg.use_macd_regime_filter THEN macd.bear ELSE TRUE
        conf_n == IMax(1, cfg.confirm_days)
        long_conf == CheckConfirmLong(d, tt - 1, conf_n)
        short_conf == CheckConfirmShort(d, tt - 1, conf_n)
        ref_ma == IF cfg.prev_close_filter_ref = "week" THEN week ELSE fast
        gate == cfg.use_prev_close_filter /\ IsFinite(close_prev) /\ IsFinite(ref_ma)
        prev_close_long_ok == IF gate THEN FGe(close_prev, ref_ma) ELSE TRUE
        prev_close_short_ok == IF gate THEN FLe(close_prev, ref_ma) ELSE TRUE
        long_entry == /\ long_stack /\ enter_long_ok /\ trend_long_ok /\ macd_long_ok
                      /\ long_conf /\ prev_close_long_ok
        short_entry == /\ short_stack /\ enter_short_ok /\ trend_short_ok /\ macd_short_ok
                       /\ short_conf /\ cfg.enable_short /\ prev_close_short_ok
        long_exit_cross == FGt(fast, week)
        short_exit_cross == FGt(week, fast)
        held == IF st.pos # 0 /\ st.entry_index # None THEN tt - st.entry_index ELSE 0
        can_exit == held >= IMax(0, cfg.min_hold_bars)
        macd_exit_long == cfg.use_macd_exit /\ can_exit /\ macd.bear
        macd_exit_short == cfg.use_macd_exit /\ can_exit /\ macd.bull
        prev_close_exit_long == gate /\ can_exit /\ FLt(close_prev, ref_ma)
        prev_close_exit_short == gate /\ can_exit /\ FGt(close_prev, ref_ma)
    IN  IF st.pos = 0 /\ tt <= st.cooldown_until_index THEN 0
        ELSE IF ~(IsFinite(week) /\ IsFinite(fast) /\ IsFinite(slow)) THEN 0
        ELSE IF st.pos = 0
             THEN IF long_entry THEN 1 ELSE IF short_entry THEN -1 ELSE 0
        ELSE IF st.pos = 1
             THEN IF can_exit /\ (long_exit_cross \/ exit_long_ok \/ macd_exit_long
                                   \/ prev_close_exit_long)
                  THEN 0 ELSE 1
        ELSE IF can_exit /\ (short_exit_cross \/ exit_short_ok \/ macd_exit_short
                              \/ prev_close_exit_short)
             THEN 0 ELSE -1

\* _decide_target without the enable_short flag in the short entry
DecideTargetShortAlways(d, st, tt, ctx) ==
    LET cfg == strat_cfg
        week == ctx.sma_week_prev
        fast == ctx.sma_fast_prev
        slow == ctx.sma_slow_prev
        trend == ctx.long_term_trend_prev
        atr == ctx.atr_prev
        close_prev == ctx.close_prev
        long_stack == FGt(week, fast) /\ FGt(fast, slow)
        short_stack == FGt(slow, fast) /\ FGt(fast, week)
        sep_long == FSub(week, fast)
        sep_short == FSub(fast, week)
        den == PyMax(FAbs(fast), Tiny)
        by_atr == cfg.use_atr_filter /\ IsFinite(atr) /\ FGt(atr, Zero)
        enter_long_ok == IF by_atr THEN FGe(sep_long, FMul(cfg.atr_enter_k, atr))
                         ELSE FGe(FDiv(sep_long, den), cfg.spread_enter_pct)
        exit_long_ok == IF by_atr THEN FLe(sep_long, FMul(cfg.atr_exit_k, atr))
                        ELSE FLe(FDiv(sep_long, den), cfg.spread_exit_pct)
        enter_short_ok == IF by_atr THEN FGe(sep_short, FMul(cfg.atr_enter_k, atr))
                          ELSE FGe(FDiv(sep_short, den), cfg.spread_enter_pct)
        exit_short_ok == IF by_atr THEN FLe(sep_short, FMul(cfg.atr_exit_k, atr))
                         ELSE FLe(FDiv(sep_short, den), cfg.spread_exit_pct)
        trend_long_ok == IF cfg.use_long_trend_filter THEN trend = 1 ELSE TRUE
        trend_short_ok == IF cfg.use_short_trend_filter THEN trend = -1 ELSE TRUE
        macd == MacdState(ctx)
        macd_long_ok == IF cfg.use_macd_regime_filter THEN macd.bull ELSE TRUE
        macd_short_ok == IF cfg.use_macd_regime_filter THEN macd.bear ELSE TRUE
        conf_n == IMax(1, cfg.confirm_days)
        long_conf == CheckConfirmLong(d, tt - 1, conf_n)
        short_conf == CheckConfirmShort(d, tt - 1, conf_n)
        ref_ma == IF cfg.prev_close_filter_ref = "week" THEN week ELSE fast
        gate == cfg.use_prev_close_filter /\ IsFinite(close_prev) /\ IsFinite(ref_ma)
        prev_close_long_ok == IF gate THEN FGe(close_prev, ref_ma) ELSE TRUE
        prev_close_short_ok == IF gate THEN FLe(close_prev, ref_ma) ELSE TRUE
        long_entry == /\ long_stack /\ enter_long_ok /\ trend_long_ok /\ macd_long_ok
                      /\ long_conf /\ prev_close_long_ok
        short_entry == /\ short_stack /\ enter_short_ok /\ trend_short_ok /\ macd_short_ok
                       /\ short_conf /\ prev_close_short_ok
        long_exit_cross == FGt(fast, week)
        short_exit_cross == FGt(week, fast)
        held == IF st.pos # 0 /\ st.entry_index # None THEN tt - st.entry_index ELSE 0
        can_exit == held >= IMax(0, cfg.min_hold_bars)
        macd_exit_long == cfg.use_macd_exit /\ can_exit /\ macd.bear
        macd_exit_short == cfg.use_macd_exit /\ can_exit /\ macd.bull
        prev_close_exit_long == gate /\ can_exit /\ FLt(close_prev, ref_ma)
        prev_close_exit_short == gate /\ can_exit /\ FGt(close_prev, ref_ma)
    IN  IF st.pos = 0 /\ tt <= st.cooldown_until_index THEN 0
        ELSE IF ~(IsFinite(week) /\ IsFinite(fast) /\ IsFinite(slow)) THEN 0
        ELSE IF st.pos = 0
             THEN IF long_entry THEN 1 ELSE IF short_entry THEN -1 ELSE 0
        ELSE IF st.pos = 1
             THEN IF can_exit /\ (long_exit_cross \/ exit_long_ok \/ macd_exit_long
                                   \/ prev_close_exit_long)
                  THEN 0 ELSE 1
        ELSE IF can_exit /\ (short_exit_cross \/ exit_short_ok \/ macd_exit_short
                              \/ prev_close_exit_short)
             THEN 0 ELSE -1

\* _decide_target using the ATR thresholds whether or not the ATR filter is on
DecideTargetAtrOnly(d, st, tt, ctx) ==
    LET cfg == strat_cfg
        week == ctx.sma_week_prev
        fast == ctx.sma_fast_prev
        slow == ctx.sma_slow_prev
        trend == ctx.long_term_trend_prev
        atr == ctx.atr_prev
        close_prev == ctx.close_prev
        long_stack == FGt(week, fast) /\ FGt(fast, slow)
        short_stack == FGt(slow, fast) /\ FGt(fast, week)
        sep_long == FSub(week, fast)
        sep_short == FSub(fast, week)
        den == PyMax(FAbs(fast), Tiny)
        by_atr == IsFinite(atr) /\ FGt(atr, Zero)
        enter_long_ok == IF by_atr THEN FGe(sep_long, FMul(cfg.atr_enter_k, atr))
                         ELSE FGe(FDiv(sep_long, den), cfg.spread_enter_pct)
        exit_long_ok == IF by_atr THEN FLe(sep_long, FMul(cfg.atr_exit_k, atr))
                        ELSE FLe(FDiv(sep_long, den), cfg.spread_exit_pct)
        enter_short_ok == IF by_atr THEN FGe(sep_short, FMul(cfg.atr_enter_k, atr))
                          ELSE FGe(FDiv(sep_short, den), cfg.spread_enter_pct)
        exit_short_ok == IF by_atr THEN FLe(sep_short, FMul(cfg.atr_exit_k, atr))
                         ELSE FLe(FDiv(sep_short, den), cfg.spread_exit_pct)
        trend_long_ok == IF cfg.use_long_trend_filter THEN trend = 1 ELSE TRUE
        trend_short_ok == IF cfg.use_short_trend_filter THEN trend = -1 ELSE TRUE
        macd == MacdState(ctx)
        macd_long_ok == IF cfg.use_macd_regime_filter THEN macd.bull ELSE TRUE
        macd_short_ok == IF cfg.use_macd_regime_filter THEN macd.bear ELSE TRUE
        conf_n == IMax(1, cfg.confirm_days)
        long_conf == CheckConfirmLong(d, tt - 1, conf_n)
        short_conf == CheckConfirmShort(d, tt - 1, conf_n)
        ref_ma == IF cfg.prev_close_filter_ref = "week" THEN week ELSE fast
        gate == cfg.use_prev_close_filter /\ IsFinite(close_prev) /\ IsFinite(ref_ma)
        prev_close_long_ok == IF gate THEN FGe(close_prev, ref_ma) ELSE TRUE
        prev_close_short_ok == IF gate THEN FLe(close_prev, ref_ma) ELSE TRUE
        long_entry == /\ long_stack /\ enter_long_ok /\ trend_long_ok /\ macd_long_ok
                      /\ long_conf /\ prev_close_long_ok
        short_entry == /\ short_stack /\ enter_short_ok /\ trend_short_ok /\ macd_short_ok
                       /\ short_conf /\ cfg.enable_short /\ prev_close_short_ok
        long_exit_cross == FGt(fast, week)
        short_exit_cross == FGt(week, fast)
        held == IF st.pos # 0 /\ st.entry_index # None THEN tt - st.entry_index ELSE 0
        can_exit == held >= IMax(0, cfg.min_hold_bars)
        macd_exit_long == cfg.use_macd_exit /\ can_exit /\ macd.bear
        macd_exit_short == cfg.use_macd_exit /\ can_exit /\ macd.bull
        prev_close_exit_long == gate /\ can_exit /\ FLt(close_prev, ref_ma)
        prev_close_exit_short == gate /\ can_exit /\ FGt(close_prev, ref_ma)
    IN  IF st.pos = 0 /\ tt <= st.cooldown_until_index THEN 0
        ELSE IF ~(IsFinite(week) /\ IsFinite(fast) /\ IsFinite(slow)) THEN 0
        ELSE IF st.pos = 0
             THEN IF long_entry THEN 1 ELSE IF short_entry THEN -1 ELSE 0
        ELSE IF st.pos = 1
             THEN IF can_exit /\ (long_exit_cross \/ exit_long_ok \/ macd_exit_long
                                   \/ prev_close_exit_long)
                  THEN 0 ELSE 1
        ELSE IF can_exit /\ (short_exit_cross \/ exit_short_ok \/ macd_exit_short
                              \/ prev_close_exit_short)
             THEN 0 ELSE -1

\* _decide_target reversing in one bar: an exit with the opposite entry
\* conditions met returns the opposite direction
DecideTargetReversing(d, st, tt, ctx) ==
    LET cfg == strat_cfg
        week == ctx.sma_week_prev
        fast == ctx.sma_fast_prev
        slow == ctx.sma_slow_prev
        trend == ctx.long_term_trend_prev
        atr == ctx.atr_prev
        close_prev == ctx.close_prev
        long_stack == FGt(week, fast) /\ FGt(fast, slow)
        short_stack == FGt(slow, fast) /\ FGt(fast, week)
        sep_long == FSub(week, fast)
        sep_short == FSub(fast, week)
        den == PyMax(FAbs(fast), Tiny)
        by_atr == cfg.use_atr_filter /\ IsFinite(atr) /\ FGt(atr, Zero)
        enter_long_ok == IF by_atr THEN FGe(sep_long, FMul(cfg.atr_enter_k, atr))
                         ELSE FGe(FDiv(sep_long, den), cfg.spread_enter_pct)
        exit_long_ok == IF by_atr THEN FLe(sep_long, FMul(cfg.atr_exit_k, atr))
                        ELSE FLe(FDiv(sep_long, den), cfg.spread_exit_pct)
        enter_short_ok == IF by_atr THEN FGe(sep_short, FMul(cfg.atr_enter_k, atr))
                          ELSE FGe(FDiv(sep_short, den), cfg.spread_enter_pct)
        exit_short_ok == IF by_atr THEN FLe(sep_short, FMul(cfg.atr_exit_k, atr))
                         ELSE FLe(FDiv(sep_short, den), cfg.spread_exit_pct)
        trend_long_ok == IF cfg.use_long_trend_filter THEN trend = 1 ELSE TRUE
        trend_short_ok == IF cfg.use_short_trend_filter THEN trend = -1 ELSE TRUE
        macd == MacdState(ctx)
        macd_long_ok == IF cfg.use_macd_regime_filter THEN macd.bull ELSE TRUE
        macd_short_ok == IF cfg.use_macd_regime_filter THEN macd.bear ELSE TRUE
        conf_n == IMax(1, cfg.confirm_days)
        long_conf == CheckConfirmLong(d, tt - 1, conf_n)
        short_conf == CheckConfirmShort(d, tt - 1, conf_n)
        ref_ma == IF cfg.prev_close_filter_ref = "week" THEN week ELSE fast
        gate == cfg.use_prev_close_filter /\ IsFinite(close_prev) /\ IsFinite(ref_ma)
        prev_close_long_ok == IF gate THEN FGe(close_prev, ref_ma) ELSE TRUE
        prev_close_short_ok == IF gate THEN FLe(close_prev, ref_ma) ELSE TRUE
        long_entry == /\ long_stack /\ enter_long_ok /\ trend_long_ok /\ macd_long_ok
                      /\ long_conf /\ prev_close_long_ok
        short_entry == /\ short_stack /\ enter_short_ok /\ trend_short_ok /\ macd_short_ok
                       /\ short_conf /\ cfg.enable_short /\ prev_close_short_ok
        long_exit_cross == FGt(fast, week)
        short_exit_cross == FGt(week, fast)
        held == IF st.pos # 0 /\ st.entry_index # None THEN tt - st.entry_index ELSE 0
        can_exit == held >= IMax(0, cfg.min_hold_bars)
        macd_exit_long == cfg.use_macd_exit /\ can_exit /\ macd.bear
        macd_exit_short == cfg.use_macd_exit /\ can_exit /\ macd.bull
        prev_close_exit_long == gate /\ can_exit /\ FLt(close_prev, ref_ma)
        prev_close_exit_short == gate /\ can_exit /\ FGt(close_prev, ref_ma)
    IN  IF st.pos = 0 /\ tt <= st.cooldown_until_index THEN 0
        ELSE IF ~(IsFinite(week) /\ IsFinite(fast) /\ IsFinite(slow)) THEN 0
        ELSE IF st.pos = 0
             THEN IF long_entry THEN 1 ELSE IF short_entry THEN -1 ELSE 0
        ELSE IF st.pos = 1
             THEN IF can_exit /\ (long_exit_cross \/ exit_long_ok \/ macd_exit_long
                                   \/ prev_close_exit_long)
                  THEN (IF short_entry THEN -1 ELSE 0) ELSE 1
        ELSE IF can_exit /\ (short_exit_cross \/ exit_short_ok \/ macd_exit_short
                              \/ prev_close_exit_short)
             THEN (IF long_entry THEN 1 ELSE 0) ELSE -1

\* TickerTraderStep1._decide_target: bar index tt, ctx = PrevContext(tt)
DecideTarget(d, st, tt, ctx) ==
    LET cfg == strat_cfg
        week == ctx.sma_week_prev
        fast == ctx.sma_fast_prev
        slow == ctx.sma_slow_prev
        trend == ctx.long_term_trend_prev
        atr == ctx.atr_prev
        close_prev == ctx.close_prev
        long_stack == FGt(week, fast) /\ FGt(fast, slow)
        short_stack == FGt(slow, fast) /\ FGt(fast, week)
        sep_long == FSub(week, fast)
        sep_short == FSub(fast, week)
        den == PyMax(FAbs(fast), Tiny)
        by_atr == cfg.use_atr_filter /\ IsFinite(atr) /\ FGt(atr, Zero)
        enter_long_ok == IF by_atr THEN FGe(sep_long, FMul(cfg.atr_enter_k, atr))
                         ELSE FGe(FDiv(sep_long, den), cfg.spread_enter_pct)
        exit_long_ok == IF by_atr THEN FLe(sep_long, FMul(cfg.atr_exit_k, atr))
                        ELSE FLe(FDiv(sep_long, den), cfg.spread_exit_pct)
        enter_short_ok == IF by_atr THEN FGe(sep_short, FMul(cfg.atr_enter_k, atr))
                          ELSE FGe(FDiv(sep_short, den), cfg.spread_enter_pct)
        exit_short_ok == IF by_atr THEN FLe(sep_short, FMul(cfg.atr_exit_k, atr))
                         ELSE FLe(FDiv(sep_short, den), cfg.spread_exit_pct)
        trend_long_ok == IF cfg.use_long_trend_filter THEN trend = 1 ELSE TRUE
        trend_short_ok == IF cfg.use_short_trend_filter THEN trend = -1 ELSE TRUE
        macd == MacdState(ctx)
        macd_long_ok == IF cfg.use_macd_regime_filter THEN macd.bull ELSE TRUE
        macd_short_ok == IF cfg.use_macd_regime_filter THEN macd.bear ELSE TRUE
        conf_n == IMax(1, cfg.confirm_days)
        long_conf == CheckConfirmLong(d, tt - 1, conf_n)
        short_conf == CheckConfirmShort(d, tt - 1, conf_n)
        ref_ma == IF cfg.prev_close_filter_ref = "week" THEN week ELSE fast
        gate == cfg.use_prev_close_filter /\ IsFinite(close_prev) /\ IsFinite(ref_ma)
        prev_close_long_ok == IF gate THEN FGe(close_prev, ref_ma) ELSE TRUE
        prev_close_short_ok == IF gate THEN FLe(close_prev, ref_ma) ELSE TRUE
        long_entry == /\ long_stack /\ enter_long_ok /\ trend_long_ok /\ macd_long_ok
                      /\ long_conf /\ prev_close_long_ok
        short_entry == /\ short_stack /\ enter_short_ok /\ trend_short_ok /\ macd_short_ok
                       /\ short_conf /\ cfg.enable_short /\ prev_close_short_ok
        long_exit_cross == FGt(fast, week)
        short_exit_cross == FGt(week, fast)
        held == IF st.pos # 0 /\ st.entry_index # None THEN tt - st.entry_index ELSE 0
        can_exit == held >= IMax(0, cfg.min_hold_bars)
        macd_exit_long == cfg.use_macd_exit /\ can_exit /\ macd.bear
        macd_exit_short == cfg.use_macd_exit /\ can_exit /\ macd.bull
        prev_close_exit_long == gate /\ can_exit /\ FLt(close_prev, ref_ma)
        prev_close_exit_short == gate /\ can_exit /\ FGt(close_prev, ref_ma)
    IN  IF st.pos = 0 /\ tt <= st.cooldown_until_index THEN 0
        ELSE IF ~(IsFinite(week) /\ IsFinite(fast) /\ IsFinite(slow)) THEN 0
        ELSE IF st.pos = 0
             THEN IF long_entry THEN 1 ELSE IF short_entry THEN -1 ELSE 0
        ELSE IF st.pos = 1
             THEN IF can_exit /\ (long_exit_cross \/ exit_long_ok \/ macd_exit_long
                                   \/ prev_close_exit_long)
                  THEN 0 ELSE 1
        ELSE IF can_exit /\ (short_exit_cross \/ exit_short_ok \/ macd_exit_short
                              \/ prev_close_exit_short)
             THEN 0 ELSE -1

Sign(x) == IF x > 0 THEN 1 ELSE IF x < 0 THEN -1 ELSE 0

\* _execute_rebalance without the return at qty_abs <= 0: a trade of no
\* share is booked like any other
ExecuteRebalanceLogZero(tr, ts, side, price, reason, target_pos, has_delta, delta_frac) ==
    LET side_u == Upper(side)
        rates == TransactionCostRates(side_u)
        frac0 == IF has_delta THEN PyMax(Zero, delta_frac) ELSE tr.state.position_frac
        frac == PyMax(Zero, PyMin(One, frac0))
        eq_val == EquityValue(tr, price)
        alloc == FMul(eq_val, frac)
    IN  IF ~IsFinite(price) \/ FLe(price, Zero) \/ FLe(alloc, Zero) THEN tr
        ELSE LET qty_abs == FloorDiv(alloc, price)
                 notional == FMul(FromInt(qty_abs), price)
                 fee == FMul(rates.fee_rate, notional)
                 tax == FMul(rates.tax_rate, notional)
                 buy == side_u = "BUY"
                 cash1 == IF buy THEN FSub(tr.cash, FAdd(FAdd(notional, fee), tax))
                          ELSE FAdd(tr.cash, FSub(FSub(notional, fee), tax))
                 shares1 == IF buy THEN tr.shares + qty_abs ELSE tr.shares - qty_abs
                 qty_signed == IF buy THEN qty_abs ELSE -qty_abs
                 pos1 == IF shares1 # 0 THEN Sign(shares1) ELSE target_pos
                 tr1 == [tr EXCEPT !.cash = cash1, !.shares = shares1, !.state.pos = pos1]
                 ev == [timestamp |-> ts, side |-> side_u, reason |-> reason,
                        price |-> price, position_after |-> pos1,
                        units_after |-> tr.state.units, fee_paid |-> fee,
                        tax_paid |-> tax, qty |-> qty_signed, notional |-> notional,
                        cash_after |-> cash1, equity_after |-> EquityNorm(tr1, price)]
             IN  [tr1 EXCEPT !.trade_log = Append(@, ev)]

\* TickerTraderStep1._execute_rebalance; has_delta = FALSE stands for
\* delta_frac = None
ExecuteRebalance(tr, ts, side, price, reason, target_pos, has_delta, delta_frac) ==
    LET side_u == Upper(side)
        rates == TransactionCostRates(side_u)
        frac0 == IF has_delta THEN PyMax(Zero, delta_frac) ELSE tr.state.position_frac
        frac == PyMax(Zero, PyMin(One, frac0))
        eq_val == EquityValue(tr, price)
        alloc == FMul(eq_val, frac)
    IN  IF ~IsFinite(price) \/ FLe(price, Zero) \/ FLe(alloc, Zero) THEN tr
        ELSE LET qty_abs == FloorDiv(alloc, price)
                 notional == FMul(FromInt(qty_abs), price)
                 fee == FMul(rates.fee_rate, notional)
                 tax == FMul(rates.tax_rate, notional)
                 buy == side_u = "BUY"
                 cash1 == IF buy THEN FSub(tr.cash, FAdd(FAdd(notional, fee), tax))
                          ELSE FAdd(tr.cash, FSub(FSub(notional, fee), tax))
                 shares1 == IF buy THEN tr.shares + qty_abs ELSE tr.shares - qty_abs
                 qty_signed == IF buy THEN qty_abs ELSE -qty_abs
                 pos1 == IF shares1 # 0 THEN Sign(shares1) ELSE target_pos
                 tr1 == [tr EXCEPT !.cash = cash1, !.shares = shares1, !.state.pos = pos1]
                 ev == [timestamp |-> ts, side |-> side_u, reason |-> reason,
                        price |-> price, position_after |-> pos1,
                        units_after |-> tr.state.units, fee_paid |-> fee,
                        tax_paid |-> tax, qty |-> qty_signed, notional |-> notional,
                        cash_after |-> cash1, equity_after |-> EquityNorm(tr1, price)]
             IN  IF qty_abs <= 0 THEN tr
                 ELSE [tr1 EXCEPT !.trade_log = Append(@, ev)]

\* _execute_flatten recording the cash held before the trade as cash_after
ExecuteFlattenCashBefore(tr, ts, side, price, reason) ==
    IF tr.shares = 0 THEN tr
    ELSE LET side_u == Upper(side)
             rates == TransactionCostRates(side_u)
             qty_abs == Abs(tr.shares)
             notional == FMul(FromInt(qty_abs), price)
             fee == FMul(rates.fee_rate, notional)
             tax == FMul(rates.tax_rate, notional)
             sell == side_u = "SELL"
             cash1 == IF sell THEN FAdd(tr.cash, FSub(FSub(notional, fee), tax))
                      ELSE FSub(tr.cash, FAdd(FAdd(notional, fee), tax))
             qty_signed == IF sell THEN -qty_abs ELSE qty_abs
             tr1 == [tr EXCEPT !.cash = cash1, !.shares = 0]
             ev == [timestamp |-> ts, side |-> side_u, reason |-> reason,
                    price |-> price, position_after |-> 0, units_after |-> 0,
                    fee_paid |-> fee, tax_paid |-> tax, qty |-> qty_signed,
                    notional |-> notional, cash_after |-> tr.cash,
                    equity_after |-> EquityNorm(tr1, price)]
         IN  [tr1 EXCEPT !.trade_log = Append(@, ev)]

\* TickerTraderStep1._execute_flatten
ExecuteFlatten(tr, ts, side, price, reason) ==
    IF tr.shares = 0 THEN tr
    ELSE LET side_u == Upper(side)
             rates == TransactionCostRates(side_u)
             qty_abs == Abs(tr.shares)
             notional == FMul(FromInt(qty_abs), price)
             fee == FMul(rates.fee_rate, notional)
             tax == FMul(rates.tax_rate, notional)
             sell == side_u = "SELL"
             cash1 == IF sell THEN FAdd(tr.cash, FSub(FSub(notional, fee), tax))
                      ELSE FSub(tr.cash, FAdd(FAdd(notional, fee), tax))
             qty_signed == IF sell THEN -qty_abs ELSE qty_abs
             tr1 == [tr EXCEPT !.cash = cash1, !.shares = 0]
             ev == [timestamp |-> ts, side |-> side_u, reason |-> reason,
                    price |-> price, position_after |-> 0, units_after |-> 0,
                    fee_paid |-> fee, tax_paid |-> tax, qty |-> qty_signed,
                    notional |-> notional, cash_after |-> cash1,
                    equity_after |-> EquityNorm(tr1, price)]
         IN  [tr1 EXCEPT !.trade_log = Append(@, ev)]

\* TickerTraderStep1._enter_new
EnterNew(tr, tt, ts, price, target, reason) ==
    LET st0 == [tr.state EXCEPT
                  !.pos = target, !.units = 1, !.position_frac = Frac(1, MaxUnits),
                  !.entry_price = price, !.entry_time = ts, !.entry_index = tt,
                  !.hist_max = NegInf, !.hist_min = PosInf,
                  !.best_since_entry = NaN, !.worst_since_entry = NaN]
        st1 == UpdateHistoryExtrema(st0, price, price)
        side == IF target = 1 THEN "BUY" ELSE "SELL"
    IN  ExecuteRebalance([tr EXCEPT !.state = st1], ts, side, price, reason, target,
                         FALSE, NaN)

\* _maybe_add_unit without the bound on the number of units
MaybeAddUnitUnbounded(tr, tt, ts, price) ==
    LET st == tr.state
    IN  IF st.pos = 0 THEN tr
        ELSE IF IsNaN(st.entry_price) THEN tr
        ELSE LET ep_r == FMul(FromInt(st.pos), FSub(FDiv(price, st.entry_price), One))
                 old_frac == st.position_frac
                 new_frac == Frac(st.units + 1, MaxUnits)
                 side == IF st.pos = 1 THEN "BUY" ELSE "SELL"
             IN  IF FGe(ep_r, strat_cfg.pyramid_step_return)
                 THEN ExecuteRebalance(
                        [tr EXCEPT !.state.units = @ + 1, !.state.position_frac = new_frac],
                        ts, side, price, "PyramidAdd", st.pos, TRUE,
                        FSub(new_frac, old_frac))
                 ELSE tr

\* _maybe_add_unit adding a unit whatever the return since entry
MaybeAddUnitNoThreshold(tr, tt, ts, price) ==
    LET st == tr.state
    IN  IF st.pos = 0 \/ st.units >= MaxUnits THEN tr
        ELSE IF IsNaN(st.entry_price) THEN tr
        ELSE LET ep_r == FMul(FromInt(st.pos), FSub(FDiv(price, st.entry_price), One))
                 old_frac == st.position_frac
                 new_frac == Frac(st.units + 1, MaxUnits)
                 side == IF st.pos = 1 THEN "BUY" ELSE "SELL"
             IN  IF IsFinite(ep_r)
                 THEN ExecuteRebalance(
                        [tr EXCEPT !.state.units = @ + 1, !.state.position_frac = new_frac],
                        ts, side, price, "PyramidAdd", st.pos, TRUE,
                        FSub(new_frac, old_frac))
                 ELSE tr

\* TickerTraderStep1._maybe_add_unit
MaybeAddUnit(tr, tt, ts, price) ==
    LET st == tr.state
    IN  IF st.pos = 0 \/ st.units >= MaxUnits THEN tr
        ELSE IF IsNaN(st.entry_price) THEN tr
        ELSE LET ep_r == FMul(FromInt(st.pos), FSub(FDiv(price, st.entry_price), One))
                 old_frac == st.position_frac
                 new_frac == Frac(st.units + 1, MaxUnits)
                 side == IF st.pos = 1 THEN "BUY" ELSE "SELL"
             IN  IF FGe(ep_r, strat_cfg.pyramid_step_return)
                 THEN ExecuteRebalance(
                        [tr EXCEPT !.state.units = @ + 1, !.state.position_frac = new_frac],
                        ts, side, price, "PyramidAdd", st.pos, TRUE,
                        FSub(new_frac, old_frac))
                 ELSE tr

\* _exit_all leaving the trailing references hist_max / hist_min of the
\* closed position in place
ExitAllKeepExtremes(tr, tt, ts, price, reason, is_stop) ==
    IF tr.state.pos = 0 THEN tr
    ELSE LET side == IF tr.state.pos = 1 THEN "SELL" ELSE "BUY"
             tr1 == ExecuteFlatten(tr, ts, side, price, reason)
         IN  [tr1 EXCEPT
                !.state = [InitialPositionState EXCEPT
                             !.hist_max = tr.state.hist_max,
                             !.hist_min = tr.state.hist_min,
                             !.cooldown_until_index = tt + IMax(0, strat_cfg.cooldown_bars)]]

\* TickerTraderStep1._exit_all (t = tt)
ExitAll(tr, tt, ts, price, reason, is_stop) ==
    IF tr.state.pos = 0 THEN tr
    ELSE LET side == IF tr.state.pos = 1 THEN "SELL" ELSE "BUY"
             tr1 == ExecuteFlatten(tr, ts, side, price, reason)
         IN  [tr1 EXCEPT
                !.state = [InitialPositionState EXCEPT
                             !.cooldown_until_index = tt + IMax(0, strat_cfg.cooldown_bars)]]

\* what one call of step did, for the history variable: the path it took,
\* the position state the forced-cover and stop checks saw (chk), the stop
\* check's result, the decided target, whether _enter_new ran, the position
\* state _maybe_add_unit saw (mid), and the borrow cost deducted
Outcome(tr, path, chk, mid, stop, decided, target, entered, borrow) ==
    [tr |-> tr, path |-> path, chk |-> chk, mid |-> mid, stop |-> stop,
     decided |-> decided, target |-> target, entered |-> entered, borrow |-> borrow]

\* step, 7) charging the borrow cost on any holding, long or short
StepSettleAnyShares(d, tr1, tt, stop, target, tr2, tr3) ==
    LET C == GetOhlc(d, tt).Close
        accrue == tr3.shares # 0 /\ IsFinite(C)
        borrow_cost == FMul(FMul(FromInt(Abs(tr3.shares)), C), ShortBorrowDailyRate)
        P == IF Upper(bt_cfg.valuation_mode) = "CLOSE" THEN C ELSE GetOpen(d, tt + 1)
    IN  Outcome(AppendEquity(IF accrue THEN [tr3 EXCEPT !.cash = FSub(@, borrow_cost)]
                             ELSE tr3,
                             GetBarTimestamp(d, tt), P),
                "normal", tr1.state, tr2.state, stop, TRUE, target,
                target # tr1.state.pos /\ target # 0,
                IF accrue THEN borrow_cost ELSE Zero)

\* step, 8) comparing the valuation mode as written (case-sensitively)
StepSettleExactMode(d, tr1, tt, stop, target, tr2, tr3) ==
    LET C == GetOhlc(d, tt).Close
        accrue == tr3.shares < 0 /\ IsFinite(C)
        borrow_cost == FMul(FMul(FromInt(Abs(tr3.shares)), C), ShortBorrowDailyRate)
        P == IF bt_cfg.valuation_mode = "CLOSE" THEN C ELSE GetOpen(d, tt + 1)
    IN  Outcome(AppendEquity(IF accrue THEN [tr3 EXCEPT !.cash = FSub(@, borrow_cost)]
                             ELSE tr3,
                             GetBarTimestamp(d, tt), P),
                "normal", tr1.state, tr2.state, stop, TRUE, target,
                target # tr1.state.pos /\ target # 0,
                IF accrue THEN borrow_cost ELSE Zero)

\* step, 7) and 8): the borrow cost of a short position, then the bar's
\* equity point; tr2 is the trader after 6), tr3 after _maybe_add_unit
StepSettle(d, tr1, tt, stop, target, tr2, tr3) ==
    LET C == GetOhlc(d, tt).Close
        accrue == tr3.shares < 0 /\ IsFinite(C)
        borrow_cost == FMul(FMul(FromInt(Abs(tr3.shares)), C), ShortBorrowDailyRate)
        P == IF Upper(bt_cfg.valuation_mode) = "CLOSE" THEN C ELSE GetOpen(d, tt + 1)
    IN  Outcome(AppendEquity(IF accrue THEN [tr3 EXCEPT !.cash = FSub(@, borrow_cost)]
                             ELSE tr3,
                             GetBarTimestamp(d, tt), P),
                "normal", tr1.state, tr2.state, stop, TRUE, target,
                target # tr1.state.pos /\ target # 0,
                IF accrue THEN borrow_cost ELSE Zero)

\* step, the call of _maybe_add_unit at Open
StepAdd(d, tr1, tt, stop, target, tr2) ==
    StepSettle(d, tr1, tt, stop, target, tr2,
               MaybeAddUnit(tr2, tt, GetBarTimestamp(d, tt), GetOhlc(d, tt).Open))

\* step, 6) with the target applied at the bar's Close instead of its Open
StepApplyAtClose(d, tr1, tt, stop, target) ==
    LET ts == GetBarTimestamp(d, tt)
        O == GetOhlc(d, tt).Close
        exited == IF tr1.state.pos # 0 THEN ExitAll(tr1, tt, ts, O, "SignalExit", FALSE)
                  ELSE tr1
    IN  StepAdd(d, tr1, tt, stop, target,
                IF target # tr1.state.pos
                THEN IF target # 0 THEN EnterNew(exited, tt, ts, O, target, "SignalEntry")
                     ELSE exited
                ELSE tr1)

\* step, 6): apply the target at Open
StepApply(d, tr1, tt, stop, target) ==
    LET ts == GetBarTimestamp(d, tt)
        O == GetOhlc(d, tt).Open
        exited == IF tr1.state.pos # 0 THEN ExitAll(tr1, tt, ts, O, "SignalExit", FALSE)
                  ELSE tr1
    IN  StepAdd(d, tr1, tt, stop, target,
                IF target # tr1.state.pos
                THEN IF target # 0 THEN EnterNew(exited, tt, ts, O, target, "SignalEntry")
                     ELSE exited
                ELSE tr1)

\* step without the return on an invalid context: the signal is decided and
\* applied on every bar that reaches 4)
StepSignalUnchecked(d, tr1, tt, stop, ctx) ==
    StepApply(d, tr1, tt, stop, DecideTarget(d, tr1.state, tt, ctx))

\* step, 4) and 5): the previous-bar context and the signal decision
StepSignal(d, tr1, tt, stop, ctx) ==
    IF ~ctx.valid
    THEN Outcome(AppendEquity(tr1, GetBarTimestamp(d, tt), GetOhlc(d, tt).Close),
                 "invalid", tr1.state, tr1.state, stop, FALSE, 0, FALSE, Zero)
    ELSE StepApply(d, tr1, tt, stop, DecideTarget(d, tr1.state, tt, ctx))

\* step, 3): the intrabar stop, given the stop check's result
StepStop(d, tr1, tt, stop) ==
    IF stop.hit
    THEN Outcome(AppendEquity(ExitAll(tr1, tt, GetBarTimestamp(d, tt), stop.px,
                                      IF stop.type = "LONG" THEN "STOP:LONG"
                                      ELSE "STOP:SHORT",
                                      TRUE),
                              GetBarTimestamp(d, tt), GetOhlc(d, tt).Close),
                 "stop", tr1.state, tr1.state, stop, FALSE, 0, FALSE, Zero)
    ELSE StepSignal(d, tr1, tt, stop, GetPrevContext(d, tt))

\* step, 2.5) onwards: tr1 is the trader after the update of the extrema
StepBar(d, tr1, tt) ==
    LET ts == GetBarTimestamp(d, tt)
        bar == GetOhlc(d, tt)
    IN  IF ShouldForceCoverShort(tr1.state, ts)
        THEN Outcome(AppendEquity(ExitAll(tr1, tt, ts, bar.Open, "FORCED_COVER_MAXHOLD",
                                          FALSE),
                                  ts, bar.Close),
                     "forced", tr1.state, tr1.state, NoStop, FALSE, 0, FALSE, Zero)
        ELSE StepStop(d, tr1, tt,
                      CheckStopIntrabar(tr1.state, bar.Open, bar.High, bar.Low, bar.Close))

\* step processing bar 1 as well
StepOutcomeFromOne(d, tr, tt) ==
    IF tt < 1 \/ tt > NumBars(d) - 2
    THEN Outcome(tr, "skip", tr.state, tr.state, NoStop, FALSE, 0, FALSE, Zero)
    ELSE StepBar(d,
                 IF tr.state.pos # 0
                 THEN [tr EXCEPT !.state = UpdateHistoryExtrema(@, GetOhlc(d, tt).Open,
                                                                GetOhlc(d, tt).Close)]
                 ELSE tr,
                 tt)

\* TickerTraderStep1.step: process bar index tt of table d
StepOutcome(d, tr, tt) ==
    IF tt < 2 \/ tt > NumBars(d) - 2
    THEN Outcome(tr, "skip", tr.state, tr.state, NoStop, FALSE, 0, FALSE, Zero)
    ELSE StepBar(d,
                 IF tr.state.pos # 0
                 THEN [tr EXCEPT !.state = UpdateHistoryExtrema(@, GetOhlc(d, tt).Open,
                                                                GetOhlc(d, tt).Close)]
                 ELSE tr,
                 tt)

---------------------------------------------------------------------------
(* Inputs: price tables and configuration records.                         *)

\* number of bars of the tables of one-price bars
NBars == 7

\* number of bars of the tables of open-to-close bars
NPlain == 6

\* number of bars of the tables long enough for an entry after a cooldown
NLong == 8

\* number of bars of the tables whose bars are replaced one at a time
NShort == 6

MkBar(o, h, l, c) ==
    [Open |-> FromInt(o), High |-> FromInt(h), Low |-> FromInt(l), Close |-> FromInt(c)]

RECURSIVE DayOf(_, _)
\* calendar day of bar i (1-based) under the day gaps g
DayOf(g, i) == IF i = 1 THEN 0 ELSE DayOf(g, i - 1) + g[i]

\* the raw table with bar shapes s and calendar gaps g
MkTable(s, g) ==
    [i \in 1 .. Len(s) |->
        [day |-> DayOf(g, i), Open |-> s[i].Open, High |-> s[i].High,
         Low |-> s[i].Low, Close |-> s[i].Close]]

\* the data managers of every table of n bars over the shapes and day gaps
\* given: timestamps strictly increasing
Tables(n, shapes, gaps) ==
    {ComputeIndicators(MkTable(s, g)) : s \in [1 .. n -> shapes], g \in [2 .. n -> gaps]}

\* the same under the indicator config cfg
TablesWith(n, shapes, gaps, cfg) ==
    {ComputeIndicatorsWith(MkTable(s, g), cfg) :
        s \in [1 .. n -> shapes], g \in [2 .. n -> gaps]}

\* bars that trade at one price, on three price levels
FlatBars == {MkBar(x, x, x, x) : x \in {1, 2, 3}}

\* bars that trade at one price, on two price levels
FlatBars2 == {MkBar(x, x, x, x) : x \in {1, 2}}

\* bars whose range is spanned by open and close, on two price levels
PlainBars == {MkBar(o, IMax(o, c), IMin(o, c), c) : o \in {1, 2}, c \in {1, 2}}

\* one-price bars on two price levels, and a bar whose Close is missing
MissingCloseBars ==
    FlatBars2 \cup {[Open |-> One, High |-> One, Low |-> One, Close |-> NaN]}

\* StrategyConfig() defaults (config.py)
DefaultStrategy ==
    [spread_enter_pct |-> Frac(30, 10000), spread_exit_pct |-> Frac(10, 10000),
     use_atr_filter |-> TRUE, atr_enter_k |-> Frac(35, 100), atr_exit_k |-> Frac(10, 100),
     confirm_days |-> 2, min_hold_bars |-> 3, cooldown_bars |-> 0,
     use_long_trend_filter |-> TRUE, use_short_trend_filter |-> FALSE,
     enable_short |-> TRUE,
     long_daily_stop |-> Frac(5, 100), long_trail_stop |-> Frac(10, 100),
     short_daily_stop |-> Frac(3, 100), short_trail_stop |-> Frac(10, 100),
     use_prev_close_filter |-> FALSE, prev_close_filter_ref |-> "fast",
     use_macd_regime_filter |-> FALSE, use_macd_exit |-> FALSE,
     macd_signal_mode |-> "cross", use_macd_size_scaling |-> FALSE,
     macd_size_min |-> Frac(6, 10), macd_size_max |-> One, macd_size_atr_k |-> One,
     max_units |-> 1, pyramid_step_return |-> FromInt(1000000000),
     give_up_max_bars |-> 0, give_up_drawdown_pct |-> Zero]

\* the defaults with entries confirmed on one bar, exits allowed one bar
\* after the entry and a cooldown of one bar
QuickStrategy ==
    [DefaultStrategy EXCEPT !.confirm_days = 1, !.min_hold_bars = 1, !.cooldown_bars = 1]

\* the defaults (two confirmation bars) with exits allowed one bar after
\* the entry
ConfirmStrategy == [DefaultStrategy EXCEPT !.min_hold_bars = 1]

\* entries confirmed on one bar, the default minimum hold of three bars
HoldStrategy == [DefaultStrategy EXCEPT !.confirm_days = 1]

\* pyramiding enabled: two units, a unit added whenever the return since
\* entry is not negative
PyramidStrategy ==
    [QuickStrategy EXCEPT !.max_units = 2, !.pyramid_step_return = Zero]

\* pyramiding enabled: two units, a unit added once the return since entry
\* reaches one half, positions held for three bars at least
SlowPyramidStrategy ==
    [HoldStrategy EXCEPT !.max_units = 2, !.pyramid_step_return = Frac(1, 2)]

\* the quick profile with the MACD regime filter and the MACD exit on
MacdStrategy ==
    [QuickStrategy EXCEPT !.use_macd_regime_filter = TRUE, !.use_macd_exit = TRUE]

\* the quick profile with the previous-close filter on, against the fast
\* average, and thresholds as fractions of the fast average
PrevCloseStrategy ==
    [QuickStrategy EXCEPT !.use_prev_close_filter = TRUE, !.use_atr_filter = FALSE]

\* the quick profile with thresholds as fractions of the fast average (no
\* ATR filter) and the short trend filter on
PctStrategy ==
    [QuickStrategy EXCEPT !.use_atr_filter = FALSE, !.use_short_trend_filter = TRUE]

\* the quick profile with shorting disabled
LongOnlyStrategy == [QuickStrategy EXCEPT !.enable_short = FALSE]

\* the quick profile with stops too wide for a bar between the two price
\* levels to hit
WideStopStrategy ==
    [QuickStrategy EXCEPT !.long_daily_stop = Frac(6, 10), !.long_trail_stop = Frac(6, 10),
                          !.short_daily_stop = Frac(3, 2), !.short_trail_stop = Frac(3, 2)]

\* CostConfig() with rates on a coarser grid than the defaults (0.0018 and
\* 0.04 / 365)
DefaultCost ==
    [stt_rate |-> Frac(1, 100), commission_rate |-> Zero,
     short_borrow_annual_rate |-> Frac(1, 10), short_borrow_day_count |-> 10,
     enforce_short_max_hold |-> FALSE, short_max_hold_days |-> 90]

\* the coarse rates with a commission of one percent
CommissionCost == [DefaultCost EXCEPT !.commission_rate = Frac(1, 100)]

\* short-max-hold enforcement on, with the default limit of 90 days
EnforcedCost == [DefaultCost EXCEPT !.enforce_short_max_hold = TRUE]

\* short-max-hold enforcement on, with a limit of two days
EnforcedShortCost ==
    [DefaultCost EXCEPT !.enforce_short_max_hold = TRUE, !.short_max_hold_days = 2]

\* BacktestConfig() with a capital of two price units
SmallBacktest ==
    [initial_capital |-> FromInt(2), valuation_mode |-> "CLOSE", initial_equity |-> One]

\* the same with the legacy valuation mode
NextOpenBacktest == [SmallBacktest EXCEPT !.valuation_mode = "NEXT_OPEN"]

\* the close valuation mode written in lower case
LowerCloseBacktest == [SmallBacktest EXCEPT !.valuation_mode = "close"]

\* a capital of several shares
LargeBacktest == [SmallBacktest EXCEPT !.initial_capital = FromInt(8)]

---------------------------------------------------------------------------
(* The run: TickerTraderStep1.__init__ then run_full_backtest.             *)

\* number of bars of the strictly rising tables
NRising == 10

\* the increments from one close to the next of a table that starts at 600:
\* 1 keeps the week average within 0.1% of the fast average, 4 takes it more
\* than 0.3% above
RisingSteps == {1, 4}

RECURSIVE RisingClose(_, _)
\* the close of bar i (1-based) of the rising series with increments inc
RisingClose(inc, i) == IF i = 1 THEN 600 ELSE RisingClose(inc, i - 1) + inc[i]

\* the data managers of the one-price tables of n bars whose closes rise
\* strictly, on consecutive days
RisingTables(n) ==
    {ComputeIndicators(MkTable([i \in 1 .. n |->
                                   MkBar(RisingClose(inc, i), RisingClose(inc, i),
                                         RisingClose(inc, i), RisingClose(inc, i))],
                                [i \in 2 .. n |-> 1])) :
        inc \in [2 .. n -> RisingSteps]}

\* the defaults with the ATR filter disabled: thresholds are the default
\* spread fractions
SpreadStrategy == [DefaultStrategy EXCEPT !.use_atr_filter = FALSE]

\* a capital of several shares at the prices of the rising tables
AmpleBacktest == [SmallBacktest EXCEPT !.initial_capital = FromInt(10000)]

\* ---- StrategyConfig.from_params_dict ----

\* the mapping from ParamsJson keys to StrategyConfig fields
ParamMapping ==
    [SpreadEnterPct |-> "spread_enter_pct", SpreadExitPct |-> "spread_exit_pct",
     UseATRFilter |-> "use_atr_filter", AtrEnterK |-> "atr_enter_k",
     AtrExitK |-> "atr_exit_k", ConfirmDays |-> "confirm_days",
     MinHoldDays |-> "min_hold_bars", CooldownDays |-> "cooldown_bars",
     UseLongTrendFilter |-> "use_long_trend_filter",
     UseShortTrendFilter |-> "use_short_trend_filter", EnableShort |-> "enable_short",
     LongDailyStop |-> "long_daily_stop", LongTrailStop |-> "long_trail_stop",
     ShortDailyStop |-> "short_daily_stop", ShortTrailStop |-> "short_trail_stop",
     UsePrevCloseFilter |-> "use_prev_close_filter",
     PrevCloseFilterRef |-> "prev_close_filter_ref",
     UseMACDRegimeFilter |-> "use_macd_regime_filter", UseMACDExit |-> "use_macd_exit",
     MACDSignalMode |-> "macd_signal_mode", UseMACDSizeScaling |-> "use_macd_size_scaling",
     MACDSizeMin |-> "macd_size_min", MACDSizeMax |-> "macd_size_max",
     MACDSizeAtrK |-> "macd_size_atr_k"]

\* str.lower on the strings the parameter dicts carry
Lower(s) ==
    CASE s = "WEEK" -> "week"
      [] s = "Week" -> "week"
      [] s = "FAST" -> "fast"
      [] s = "HIST" -> "hist"
      [] s = "Cross" -> "cross"
      [] OTHER -> s

\* a parameter dict is None or a mapping from keys to values; a value is
\* carried with the answer of isinstance(value, str)
NoParams == [is_none |-> TRUE]
ParamsDict(items) == [is_none |-> FALSE, items |-> items]
PyStr(s) == [is_str |-> TRUE, v |-> s]
PyObj(x) == [is_str |-> FALSE, v |-> x]

\* (d or {}).items()
ItemsOf(d) == IF d.is_none THEN [k \in {} |-> PyObj(0)] ELSE d.items

\* from_params_dict accepting the field names themselves as keys too
FromParamsDictByField(d) ==
    LET items == ItemsOf(d)
        FieldOf(k) == IF k \in DOMAIN ParamMapping THEN ParamMapping[k] ELSE k
        known == {k \in DOMAIN items :
                     k \in DOMAIN ParamMapping \/ k \in DOMAIN DefaultStrategy}
        fields == {FieldOf(k) : k \in known}
        raw == [f \in fields |-> items[CHOOSE k \in known : FieldOf(k) = f]]
        kwargs == [f \in fields |->
                      IF f \in {"macd_signal_mode", "prev_close_filter_ref"} /\ raw[f].is_str
                      THEN Lower(raw[f].v) ELSE raw[f].v]
    IN  [f \in DOMAIN DefaultStrategy |->
            IF f \in fields THEN kwargs[f] ELSE DefaultStrategy[f]]

\* StrategyConfig.from_params_dict(d): the recognized keys' values as keyword
\* arguments, the two mode strings lower-cased, every other field at the
\* default of the dataclass
FromParamsDict(d) ==
    LET items == ItemsOf(d)
        known == {k \in DOMAIN items : k \in DOMAIN ParamMapping}
        fields == {ParamMapping[k] : k \in known}
        raw == [f \in fields |-> items[CHOOSE k \in known : ParamMapping[k] = f]]
        kwargs == [f \in fields |->
                      IF f \in {"macd_signal_mode", "prev_close_filter_ref"} /\ raw[f].is_str
                      THEN Lower(raw[f].v) ELSE raw[f].v]
    IN  [f \in DOMAIN DefaultStrategy |->
            IF f \in fields THEN kwargs[f] ELSE DefaultStrategy[f]]

\* the values the parameter dicts give to each key: recognized keys, the two
\* mode keys with strings in several letter cases and with a non-string, and
\* two keys outside the mapping (a field name and a stranger)
ParamChoices ==
    [ConfirmDays |-> {PyObj(1)}, MinHoldDays |-> {PyObj(1)},
     UsePrevCloseFilter |-> {PyObj(TRUE)},
     PrevCloseFilterRef |-> {PyStr("WEEK"), PyStr("Week"), PyStr("fast"), PyObj(7)},
     MACDSignalMode |-> {PyStr("HIST"), PyObj(7)},
     confirm_days |-> {PyObj(5)}, Foo |-> {PyStr("bar")}]

RECURSIVE DictsOver(_)
\* the mappings that give every key of K one of its values
DictsOver(K) ==
    IF K = {} THEN {[k \in {} |-> PyObj(0)]}
    ELSE LET k == CHOOSE x \in K : TRUE
         IN  {[j \in K |-> IF j = k THEN v ELSE f[j]] :
                 f \in DictsOver(K \ {k}), v \in ParamChoices[k]}

\* None, and every dict over a subset of those keys
ParamDicts ==
    {NoParams} \cup
    UNION {{ParamsDict(f) : f \in DictsOver(K)} : K \in SUBSET DOMAIN ParamChoices}

\* the dicts a run is imported from: quick confirmation and holding, the
\* prev-close filter on, every mode value a string
RunParams ==
    {d \in ParamDicts \ {NoParams} :
        /\ {"ConfirmDays", "MinHoldDays", "UsePrevCloseFilter"} \subseteq DOMAIN d.items
        /\ \A k \in DOMAIN d.items : k \in {"MACDSignalMode", "PrevCloseFilterRef"}
                                        => d.items[k].is_str}

\* one-price bars at two price levels
TwoLevelBars == {MkBar(x, x, x, x) : x \in {1, 3}}

\* cost configs with a negative, a zero and positive day counts
BorrowCosts ==
    {[DefaultCost EXCEPT !.short_borrow_day_count = n] : n \in {-1, 0, 1, 365}}

\* bars over three price levels, two of them with an Open off the Close
SwingBars == {MkBar(1, 1, 1, 1), MkBar(3, 3, 3, 3), MkBar(3, 3, 2, 2), MkBar(1, 2, 1, 2)}

\* wide stops and three bars of minimum holding: positions last several bars
SwingStrategy == [WideStopStrategy EXCEPT !.min_hold_bars = 3]

\* a single unit (the default) under step returns that any price satisfies
SingleUnitStrategies ==
    {[QuickStrategy EXCEPT !.max_units = 1, !.pyramid_step_return = r] :
        r \in {Zero, FromInt(-1)}}

\* wide stops and two bars of minimum holding: a long is still held when the
\* averages have turned into the short stack
TurnStrategy == [WideStopStrategy EXCEPT !.min_hold_bars = 2]

\* the tables of one-price bars on two price levels, and the same tables with
\* the row of the last processed bar (n - 2) missing: neither download_ohlcv
\* nor OhlcvDataManager drops a row without prices
MissingRowTables ==
    LET missing == [Open |-> NaN, High |-> NaN, Low |-> NaN, Close |-> NaN]
    IN  {ComputeIndicators(MkTable(IF m THEN [s EXCEPT ![NBars - 1] = missing] ELSE s,
                                   [i \in 2 .. NBars |-> 1])) :
            s \in [1 .. NBars -> FlatBars2], m \in BOOLEAN}

\* StrategyConfigs that differ from c in the fields step never reads only:
\* one field at a time, and all of them at once
UnusedVariants(c) ==
    {[c EXCEPT !.give_up_max_bars = 2],
     [c EXCEPT !.give_up_drawdown_pct = Frac(1, 100)],
     [c EXCEPT !.macd_signal_mode = "hist"],
     [c EXCEPT !.use_macd_size_scaling = TRUE],
     [c EXCEPT !.macd_size_min = Zero],
     [c EXCEPT !.macd_size_max = Frac(1, 2)],
     [c EXCEPT !.macd_size_atr_k = Zero],
     [c EXCEPT !.give_up_max_bars = 2, !.give_up_drawdown_pct = Frac(1, 100),
               !.macd_signal_mode = "hist", !.use_macd_size_scaling = TRUE,
               !.macd_size_min = Zero, !.macd_size_max = Frac(1, 2),
               !.macd_size_atr_k = Zero]}

\* the profiles a run is repeated under
RepeatedStrategies == {QuickStrategy, MacdStrategy}

Trader == [state |-> state, cash |-> cash, shares |-> shares, equity |-> equity,
           trade_log |-> trade_log, equity_curve |-> equity_curve]

NoStep ==
    [t |-> -1, path |-> "none",
     pre |-> [state |-> InitialPositionState, cash |-> Zero, shares |-> 0, equity |-> Zero,
              trade_log |-> << >>, equity_curve |-> << >>],
     chk |-> InitialPositionState, mid |-> InitialPositionState, stop |-> NoStop, decided |-> FALSE, target |-> 0,
     entered |-> FALSE, borrow |-> Zero, nlog |-> 0, neq |-> 0, flat_t |-> -1]

\* TickerTraderStep1.__init__ on a table and configs drawn from the sets given
InitOn(tables, strats, costs, bts) ==
    /\ df \in tables
    /\ strat_cfg \in strats
    /\ cost_cfg \in costs
    /\ bt_cfg \in bts
    /\ state = InitialPositionState
    /\ cash = bt_cfg.initial_capital
    /\ shares = 0
    /\ equity = bt_cfg.initial_equity
    /\ trade_log = << >>
    /\ equity_curve = << >>
    /\ t = 0
    /\ peer = [t |-> 0,
               tr |-> [state |-> InitialPositionState, cash |-> bt_cfg.initial_capital,
                       shares |-> 0, equity |-> bt_cfg.initial_equity,
                       trade_log |-> << >>, equity_curve |-> << >>]]
    /\ last = NoStep

\* runs on one-price bars of consecutive days
Init ==
    InitOn(Tables(NBars, FlatBars, {1}), {QuickStrategy, ConfirmStrategy},
           {DefaultCost, EnforcedShortCost}, {SmallBacktest})

\* runs on open-to-close bars of consecutive days
InitPlain ==
    InitOn(Tables(NPlain, PlainBars, {1}), {QuickStrategy},
           {DefaultCost, EnforcedShortCost},
           {SmallBacktest, NextOpenBacktest, LowerCloseBacktest})

\* runs on calendars with gaps, under the 90-day short limit
InitCalendar ==
    InitOn(Tables(NBars, FlatBars2, {1, 89}), {HoldStrategy}, {EnforcedCost},
           {SmallBacktest, NextOpenBacktest})

\* runs with pyramiding enabled
InitPyramid ==
    InitOn(Tables(NBars, FlatBars, {1}), {PyramidStrategy, SlowPyramidStrategy},
           {DefaultCost, CommissionCost},
           {LargeBacktest})

\* short tables of one-price bars, one profile
InitShort ==
    InitOn(Tables(NShort, FlatBars, {1}), {QuickStrategy}, {DefaultCost},
           {SmallBacktest})

\* long tables of one-price bars, one profile with a cooldown of one bar
InitCooldown ==
    InitOn(Tables(NLong, FlatBars, {1}), {QuickStrategy}, {DefaultCost},
           {SmallBacktest})

\* tables in which a bar's Close may be missing, one profile
InitMissing ==
    InitOn(Tables(NBars, MissingCloseBars, {1}), {QuickStrategy}, {DefaultCost},
           {SmallBacktest, NextOpenBacktest})

\* runs under two indicator configs and the profiles that turn each entry
\* and exit condition on
InitSignals ==
    InitOn(TablesWith(NBars, FlatBars, {1}, IndCfg)
              \cup TablesWith(NBars, FlatBars, {1}, WideIndCfg),
           {DefaultStrategy, MacdStrategy, PrevCloseStrategy, PctStrategy, LongOnlyStrategy},
           {DefaultCost}, {LargeBacktest})

\* runs with shorting disabled, with and without the short-max-hold
\* enforcement
InitLongOnly ==
    InitOn(Tables(NBars, FlatBars, {1}), {LongOnlyStrategy},
           {DefaultCost, EnforcedShortCost}, {SmallBacktest, LargeBacktest})

\* runs on open-to-close bars under stops that are never hit
InitOpen ==
    InitOn(Tables(NPlain, PlainBars, {1}), {WideStopStrategy}, {DefaultCost},
           {SmallBacktest})

\* runs on strictly rising closes under the defaults without the ATR filter
InitRising ==
    InitOn(RisingTables(NRising), {SpreadStrategy}, {DefaultCost}, {AmpleBacktest})

\* two instances constructed on one data manager and one set of configs
InitPair ==
    InitOn(Tables(NShort, FlatBars, {1}), {QuickStrategy}, {DefaultCost, EnforcedShortCost},
           {SmallBacktest})

\* runs under a StrategyConfig imported from a parameter dict
InitImport ==
    InitOn(Tables(NShort, TwoLevelBars, {1}), {FromParamsDict(d) : d \in RunParams},
           {DefaultCost}, {SmallBacktest})

\* runs on the tables of every length from 0 to NShort bars
InitLengths ==
    InitOn(UNION {Tables(n, FlatBars, {1}) : n \in 0 .. NShort}, {QuickStrategy},
           {DefaultCost}, {SmallBacktest})

\* the loop body with an index that is never advanced
StepNoAdvance ==
    /\ t < IMax(0, NumBars(df) - 1)
    /\ \E r \in {StepOutcome(df, Trader, t)} :
          /\ state' = r.tr.state
          /\ cash' = r.tr.cash
          /\ shares' = r.tr.shares
          /\ equity' = r.tr.equity
          /\ trade_log' = r.tr.trade_log
          /\ equity_curve' = r.tr.equity_curve
          /\ last' = [t |-> t, path |-> r.path,
                      pre |-> Trader,
                      chk |-> r.chk, mid |-> r.mid, stop |-> r.stop,
                      decided |-> r.decided, target |-> r.target,
                      entered |-> r.entered, borrow |-> r.borrow,
                      nlog |-> Len(trade_log), neq |-> Len(equity_curve),
                      flat_t |-> IF /\ r.chk.pos # 0
                                    /\ \/ r.path \in {"forced", "stop"}
                                       \/ r.decided /\ r.target # r.chk.pos
                                 THEN t ELSE last.flat_t]
    /\ t' = t
    /\ UNCHANGED <<df, strat_cfg, cost_cfg, bt_cfg, peer>>

\* runs under every day-count convention of BorrowCosts
InitBorrow ==
    InitOn(Tables(NShort, FlatBars, {1}), {QuickStrategy}, BorrowCosts, {SmallBacktest})

\* positions held over bars whose Open and Close differ
InitSwing ==
    InitOn(Tables(NPlain, SwingBars, {1}), {SwingStrategy}, {DefaultCost}, {LargeBacktest})

\* runs with one unit and with two units, under low and high step returns
InitUnits ==
    InitOn(Tables(NBars, FlatBars, {1}),
           SingleUnitStrategies \cup {PyramidStrategy, SlowPyramidStrategy},
           {DefaultCost}, {LargeBacktest})

\* positions held until the opposite entry conditions hold
InitTurn ==
    InitOn(Tables(NBars, FlatBars, {1}), {TurnStrategy, QuickStrategy}, {DefaultCost},
           {LargeBacktest})

\* tables in which the row of the last processed bar may be missing, with
\* and without a commission
InitGap ==
    InitOn(MissingRowTables, {QuickStrategy}, {DefaultCost, CommissionCost},
           {LargeBacktest})

\* a run that is repeated under a config with other unused fields
InitVariants ==
    InitOn(Tables(NShort, FlatBars, {1}), RepeatedStrategies, {DefaultCost},
           {LargeBacktest})

\* one iteration of run_full_backtest's loop: step(t), then t + 1
Step ==
    /\ t < IMax(0, NumBars(df) - 1)
    /\ \E r \in {StepOutcome(df, Trader, t)} :
          /\ state' = r.tr.state
          /\ cash' = r.tr.cash
          /\ shares' = r.tr.shares
          /\ equity' = r.tr.equity
          /\ trade_log' = r.tr.trade_log
          /\ equity_curve' = r.tr.equity_curve
          /\ last' = [t |-> t, path |-> r.path,
                      pre |-> Trader,
                      chk |-> r.chk, mid |-> r.mid, stop |-> r.stop,
                      decided |-> r.decided, target |-> r.target,
                      entered |-> r.entered, borrow |-> r.borrow,
                      nlog |-> Len(trade_log), neq |-> Len(equity_curve),
                      flat_t |-> IF /\ r.chk.pos # 0
                                    /\ \/ r.path \in {"forced", "stop"}
                                       \/ r.decided /\ r.target # r.chk.pos
                                 THEN t ELSE last.flat_t]
    /\ t' = t + 1
    /\ UNCHANGED <<df, strat_cfg, cost_cfg, bt_cfg, peer>>

\* the second instance's step with one trade ledger shared by both instances
StepPeerSharedLog ==
    /\ peer.t < IMax(0, NumBars(df) - 1)
    /\ \E r \in {StepOutcome(df, peer.tr, peer.t)} :
          /\ peer' = [t |-> peer.t + 1, tr |-> r.tr]
          /\ trade_log' = trade_log \o SubSeq(r.tr.trade_log, Len(peer.tr.trade_log) + 1,
                                              Len(r.tr.trade_log))
    /\ UNCHANGED <<df, strat_cfg, cost_cfg, bt_cfg, state, cash, shares, equity,
                   equity_curve, t, last>>

\* one iteration of the second instance's run_full_backtest loop: its step
\* reads the shared table and configs and assigns only its own attributes
StepPeer ==
    /\ peer.t < IMax(0, NumBars(df) - 1)
    /\ \E r \in {StepOutcome(df, peer.tr, peer.t)} :
          peer' = [t |-> peer.t + 1, tr |-> r.tr]
    /\ UNCHANGED <<df, strat_cfg, cost_cfg, bt_cfg, state, cash, shares, equity,
                   trade_log, equity_curve, t, last>>

\* the step calls of the two instances interleaved in any order
NextPair == Step \/ StepPeer

\* the trader TickerTraderStep1.__init__ builds
FreshTrader ==
    [state |-> InitialPositionState, cash |-> bt_cfg.initial_capital, shares |-> 0,
     equity |-> bt_cfg.initial_equity, trade_log |-> << >>, equity_curve |-> << >>]

RECURSIVE RunFullBacktest(_, _, _, _)
\* run_full_backtest's loop on table d from trader tr: step(from), ...,
\* step(to - 1)
RunFullBacktest(d, tr, from, to) ==
    IF from >= to THEN tr
    ELSE RunFullBacktest(d, StepOutcome(d, tr, from).tr, from + 1, to)

\* the first run done, a second TickerTraderStep1 is constructed on the same
\* table, cost and backtest configs and a StrategyConfig that differs in the
\* unused fields only; strat_cfg is the config of the instance that runs
SecondRun ==
    /\ t = IMax(0, NumBars(df) - 1)
    /\ peer.t = 0
    /\ strat_cfg \in RepeatedStrategies
    /\ strat_cfg' \in UnusedVariants(strat_cfg)
    /\ peer' = [t |-> 0, tr |-> FreshTrader]
    /\ UNCHANGED <<df, cost_cfg, bt_cfg, state, cash, shares, equity, trade_log,
                   equity_curve, t, last>>

\* a run, then the same run under another config
NextVariants == Step \/ SecondRun \/ StepPeer

Next == Step

Spec == Init /\ [][Next]_vars
SpecPlain == InitPlain /\ [][Next]_vars
SpecCalendar == InitCalendar /\ [][Next]_vars
SpecPyramid == InitPyramid /\ [][Next]_vars
SpecShort == InitShort /\ [][Next]_vars
SpecCooldown == InitCooldown /\ [][Next]_vars
SpecMissing == InitMissing /\ [][Next]_vars
SpecSignals == InitSignals /\ [][Next]_vars
SpecLongOnly == InitLongOnly /\ [][Next]_vars
SpecOpen == InitOpen /\ [][Next]_vars
SpecRising == InitRising /\ [][Next]_vars
SpecPair == InitPair /\ [][NextPair]_vars
SpecImport == InitImport /\ [][Next]_vars
SpecBorrow == InitBorrow /\ [][Next]_vars
SpecSwing == InitSwing /\ [][Next]_vars
SpecUnits == InitUnits /\ [][Next]_vars
SpecTurn == InitTurn /\ [][Next]_vars
SpecGap == InitGap /\ [][Next]_vars
SpecVariants == InitVariants /\ [][NextVariants]_vars
\* the for loop of run_full_backtest goes on to its next iteration as long as
\* one is left
LoopAdvance == t < IMax(0, NumBars(df) - 1) /\ t' = t + 1
SpecLengths == InitLengths /\ [][Next]_vars /\ WF_t(LoopAdvance)

---------------------------------------------------------------------------
(* Properties of the engine.                                               *)

\* the bar shapes a table's bar may be replaced by
AnyBars == FlatBars \cup PlainBars

\* the data manager of the table that differs from d in bar j, which has
\* the shape b (its day kept)
Mutate(d, j, b) ==
    ComputeIndicators([RawOf(d) EXCEPT ![j + 1] =
                          [day |-> @.day, Open |-> b.Open, High |-> b.High,
                           Low |-> b.Low, Close |-> b.Close]])

\* the position state _decide_target sees at bar tt of table d, from the
\* trader tr left by the previous bar
StateAtDecision(d, tr, tt) ==
    IF tr.state.pos # 0
    THEN UpdateHistoryExtrema(tr.state, GetOhlc(d, tt).Open, GetOhlc(d, tt).Close)
    ELSE tr.state

\* C1 (no-lookahead): the target decided at bar i is the one decided on every
\* table that differs only in bar i or in a later bar, and the position
\* state, cash, shares and ledger a step at bar i leaves (what the later
\* decisions read) are those left on every table that differs only in a bar
\* of index > i.
C1_NoLookahead ==
    /\ last.decided =>
          \A b \in AnyBars :
              LET alt == Mutate(df, last.t, b)
              IN  DecideTarget(alt, StateAtDecision(alt, last.pre, last.t), last.t,
                               GetPrevContext(alt, last.t)) = last.target
    /\ last.t >= 0 =>
          \A j \in last.t + 1 .. NumBars(df) - 1, b \in AnyBars :
              LET r == StepOutcome(Mutate(df, j, b), last.pre, last.t)
              IN  /\ r.decided = last.decided /\ r.target = last.target
                  /\ r.tr.state = state /\ r.tr.cash = cash /\ r.tr.shares = shares
                  /\ r.tr.trade_log = trade_log

\* C1 witness: an entry was decided at a bar that is not the last one, so
\* that the bar itself and later bars can be mutated; mutating the bar
\* itself changes the close the same-bar indicators are computed from
C1_Witness ==
    /\ last.decided /\ last.entered /\ shares # 0
    /\ last.t + 1 <= NumBars(df) - 1
    /\ \E b \in AnyBars : GetOhlc(Mutate(df, last.t, b), last.t).smaWeek
                            # GetOhlc(df, last.t).smaWeek

\* the bar the last call of step was given was processed (not skipped)
Processed == last.t >= 2 /\ last.t <= NumBars(df) - 2

\* the bar the last call of step was given
LastBar == GetOhlc(df, IMax(last.t, 0))

\* the trade events the last call of step appended
NewEvents == SubSeq(trade_log, last.nlog + 1, Len(trade_log))

\* the reasons of the trade events the last call of step appended
NewReasons == {NewEvents[k].reason : k \in 1 .. Len(NewEvents)}

\* the last call of step appended one equity point, valued at price p
OneEquityPointAt(p) ==
    /\ Len(equity_curve) = last.neq + 1
    /\ equity_curve[Len(equity_curve)] =
          [timestamp |-> GetBarTimestamp(df, last.t), equity |-> EquityNorm(Trader, p)]
    /\ equity = EquityNorm(Trader, p)

\* the cash is what the last appended event left (no later deduction), or
\* what it was before the bar when the bar appended no event
CashAsTraded ==
    cash = IF Len(NewEvents) = 0 THEN last.pre.cash
           ELSE NewEvents[Len(NewEvents)].cash_after

\* the last bar was processed with enforcement on, a short position open and
\* the calendar days since its entry at or over the limit
ForcedCoverCase ==
    /\ Processed
    /\ cost_cfg.enforce_short_max_hold
    /\ last.pre.state.pos = -1
    /\ last.pre.state.entry_time # None
    /\ GetBarTimestamp(df, last.t) - last.pre.state.entry_time
          >= cost_cfg.short_max_hold_days

\* the stop price of a short at the last bar: the tighter of the daily and
\* the trailing stop
ShortStopPx ==
    LET daily_px == FMul(LastBar.Open, FAdd(One, strat_cfg.short_daily_stop))
        trail_px == FMul(last.chk.hist_min, FAdd(One, strat_cfg.short_trail_stop))
    IN  IF FLe(daily_px, trail_px) THEN daily_px ELSE trail_px

\* the stop price of a long at the last bar: the tighter of the daily and
\* the trailing stop
LongStopPx ==
    LET daily_px == FMul(LastBar.Open, FSub(One, strat_cfg.long_daily_stop))
        trail_px == FMul(last.chk.hist_max, FSub(One, strat_cfg.long_trail_stop))
    IN  IF FGe(daily_px, trail_px) THEN daily_px ELSE trail_px

\* C2 (forced cover > stop > signal): on a processed bar with enforcement
\* on, a short position and calendar days since entry >= the limit, the
\* bar leaves the trader flat, every event it appends is a
\* FORCED_COVER_MAXHOLD at the bar's Open (one when shares were held), so no
\* STOP, SignalExit, SignalEntry or PyramidAdd event, no borrow cost is
\* deducted after the cover, and one equity point valued at Close is
\* recorded
C2_ForcedCoverPrecedence ==
    ForcedCoverCase =>
        /\ state.pos = 0 /\ state.units = 0 /\ shares = 0
        /\ Len(NewEvents) = IF last.pre.shares # 0 THEN 1 ELSE 0
        /\ \A k \in 1 .. Len(NewEvents) :
              /\ NewEvents[k].reason = "FORCED_COVER_MAXHOLD"
              /\ NewEvents[k].price = LastBar.Open
              /\ NewEvents[k].side = "BUY"
              /\ NewEvents[k].qty = -last.pre.shares
              /\ NewEvents[k].position_after = 0
        /\ CashAsTraded
        /\ OneEquityPointAt(LastBar.Close)

\* C2 witness: a short holding shares is force-covered on a bar whose High
\* also breaches the short stop price
C2_Witness ==
    /\ ForcedCoverCase
    /\ last.pre.shares < 0
    /\ FGe(LastBar.High, ShortStopPx)
    /\ NewReasons = {"FORCED_COVER_MAXHOLD"}

\* C3 (stop dominance): the stop check of a long fires iff Low <= the
\* greater of Open*(1-long_daily_stop) and hist_max*(1-long_trail_stop) and
\* reports that price; of a short iff High >= the smaller of
\* Open*(1+short_daily_stop) and hist_min*(1+short_trail_stop); it never
\* fires when pos = 0 or units = 0
C3_StopDominance ==
    Processed =>
        LET r == CheckStopIntrabar(last.chk, LastBar.Open, LastBar.High,
                                   LastBar.Low, LastBar.Close)
        IN  /\ (last.chk.pos = 0 \/ last.chk.units = 0) => ~r.hit
            /\ (last.chk.pos = 1 /\ last.chk.units # 0) =>
                  /\ r.hit <=> FLe(LastBar.Low, LongStopPx)
                  /\ r.hit => r.px = LongStopPx /\ r.type = "LONG"
            /\ (last.chk.pos = -1 /\ last.chk.units # 0) =>
                  /\ r.hit <=> FGe(LastBar.High, ShortStopPx)
                  /\ r.hit => r.px = ShortStopPx /\ r.type = "SHORT"
            /\ last.path # "forced" => last.stop = r
            /\ (r.hit /\ last.path # "forced") =>
                  \A k \in 1 .. Len(NewEvents) : NewEvents[k].price = r.px

\* C3 witness: a long is stopped at its trailing stop, which lies above its
\* daily stop and above the bar's Low while the daily stop lies below it
C3_Witness ==
    /\ Processed /\ last.chk.pos = 1 /\ last.pre.shares > 0
    /\ last.stop.hit /\ last.stop.px = LongStopPx
    /\ FGt(LongStopPx, FMul(LastBar.Open, FSub(One, strat_cfg.long_daily_stop)))
    /\ FGt(LastBar.Low, FMul(LastBar.Open, FSub(One, strat_cfg.long_daily_stop)))
    /\ NewReasons = {"STOP:LONG"}

\* the last bar was processed with a position of direction dir open, no
\* forced cover due, and the stop price breached
StopCase(dir) ==
    /\ Processed
    /\ last.pre.state.pos = dir /\ last.pre.state.units # 0
    /\ ~ForcedCoverCase
    /\ IF dir = 1 THEN FLe(LastBar.Low, LongStopPx) ELSE FGe(LastBar.High, ShortStopPx)

\* C4 (stop bar) as the spec states it: a stop bar appends exactly one
\* event, STOP:LONG (STOP:SHORT) at the stop price, flattening the whole
\* position, deducts no borrow cost and records one equity point at Close
C4_StopBarOneEvent ==
    \A dir \in {1, -1} :
        StopCase(dir) =>
            /\ Len(NewEvents) = 1
            /\ NewEvents[1].reason = (IF dir = 1 THEN "STOP:LONG" ELSE "STOP:SHORT")
            /\ NewEvents[1].price = (IF dir = 1 THEN LongStopPx ELSE ShortStopPx)
            /\ NewEvents[1].qty = -last.pre.shares
            /\ state.pos = 0 /\ state.units = 0 /\ shares = 0
            /\ CashAsTraded
            /\ OneEquityPointAt(LastBar.Close)

\* the last call of step entered a new position
EntryAtLast ==
    \/ last.entered
    \/ last.pre.state.pos = 0 /\ state.pos # 0
    \/ "SignalEntry" \in NewReasons

\* the entry conditions of _decide_target hold at bar tt for a flat trader
\* that is in no cooldown
WouldEnter(tt) ==
    DecideTarget(df, InitialPositionState, tt, GetPrevContext(df, tt)) # 0

\* C5 (cooldown): a bar that flattens a position (signal exit, stop or
\* forced cover) at index t enters no position itself and sets the cooldown
\* expiry to t + max(0, cooldown_bars); an entry after a flatten at t occurs
\* at bar t + k + 1 at the earliest, k = max(0, cooldown_bars)
C5_Cooldown ==
    LET k == IMax(0, strat_cfg.cooldown_bars)
    IN  /\ (last.t >= 0 /\ last.flat_t = last.t) =>
              /\ ~EntryAtLast /\ state.pos = 0
              /\ state.cooldown_until_index = last.t + k
        /\ (EntryAtLast /\ last.flat_t >= 0) => last.t >= last.flat_t + k + 1
        /\ (Processed /\ last.flat_t >= 0 /\ last.t <= last.flat_t + k) =>
              state.pos = 0 /\ shares = 0

\* C5 witness: the last bar of a cooldown of one bar, where the entry
\* conditions hold and no position is entered
C5_Witness ==
    /\ Processed
    /\ strat_cfg.cooldown_bars = 1
    /\ last.flat_t >= 0 /\ last.t = last.flat_t + 1
    /\ WouldEnter(last.t)
    /\ ~EntryAtLast /\ state.pos = 0 /\ NewEvents = << >>

\* the three averages of bar i are finite and stacked in direction dir
Stacked(i, dir) ==
    LET w == GetOhlc(df, i).smaWeek
        f == GetOhlc(df, i).smaFast
        s == GetOhlc(df, i).smaSlow
    IN  /\ IsFinite(w) /\ IsFinite(f) /\ IsFinite(s)
        /\ IF dir = 1 THEN FGt(w, f) /\ FGt(f, s) ELSE FGt(s, f) /\ FGt(f, w)

\* C6 (confirmation window): an entry at bar t in direction dir occurs only
\* if the window [t - N, t - 1], N = max(1, confirm_days), starts at index
\* 0 or later and the averages are finite and stacked in that direction at
\* every bar of it
C6_ConfirmationWindow ==
    EntryAtLast =>
        LET N == IMax(1, strat_cfg.confirm_days)
        IN  /\ state.pos = last.target /\ last.target # 0
            /\ last.t - N >= 0
            /\ \A i \in (last.t - N) .. (last.t - 1) : Stacked(i, last.target)

\* C6 witness: with two confirmation bars, a long entry holding shares at a
\* bar whose window is stacked while the bar before the window is not
C6_Witness ==
    /\ EntryAtLast /\ state.pos = 1 /\ shares > 0
    /\ strat_cfg.confirm_days = 2
    /\ Stacked(last.t - 2, 1) /\ Stacked(last.t - 1, 1)
    /\ ~Stacked(last.t - 3, 1)

\* C7 (forced cover deadline) as the spec states it: with enforcement on
\* and short_max_hold_days = 90, the bar that force-covers a short is dated
\* at most 90 calendar days after the short's entry
C7_CoverByDeadline ==
    (/\ Processed
     /\ cost_cfg.enforce_short_max_hold /\ cost_cfg.short_max_hold_days = 90
     /\ last.pre.state.pos = -1 /\ last.pre.shares < 0
     /\ "FORCED_COVER_MAXHOLD" \in NewReasons)
        => GetBarTimestamp(df, last.t) - last.pre.state.entry_time <= 90

\* C8 (position consistency) as the spec states it: pos = 0 iff units = 0
\* iff shares = 0 in every reachable state
C8_PositionConsistency ==
    /\ state.pos = 0 <=> state.units = 0
    /\ state.units = 0 <=> shares = 0

\* C9 (unit bound): 0 <= units <= max(1, max_units) in every reachable
\* state; units is 1 right after _enter_new, a bar's pyramid add raises it
\* by at most 1, and it is 0 after a bar that flattens
C9_UnitBound ==
    /\ state.units \in 0 .. IMax(1, strat_cfg.max_units)
    /\ last.entered => last.mid.units = 1
    /\ Processed => state.units <= last.mid.units + 1
    /\ Cardinality({k \in 1 .. Len(NewEvents) : NewEvents[k].reason = "PyramidAdd"}) <= 1
    /\ (last.t >= 0 /\ last.flat_t = last.t) => state.units = 0

\* C9 witness: with max_units = 2, a bar after the entry bar adds the
\* second unit to a position holding shares
C9_Witness ==
    /\ Processed /\ ~last.entered
    /\ strat_cfg.max_units = 2
    /\ last.pre.state.units = 1 /\ state.units = 2
    /\ NewReasons = {"PyramidAdd"} /\ shares # 0

\* the number of bars among 0 .. t - 1 that step processes
ProcessedCount == Cardinality({i \in 0 .. t - 1 : i >= 2 /\ i <= NumBars(df) - 2})

\* C10 (one equity point per bar): every processed bar appends exactly one
\* equity point, stamped with the bar's timestamp, a skipped bar appends
\* none, and the curve's length is the number of bars processed
C10_OneEquityPointPerBar ==
    /\ Len(equity_curve) = ProcessedCount
    /\ Processed =>
          /\ Len(equity_curve) = last.neq + 1
          /\ equity_curve[Len(equity_curve)].timestamp = GetBarTimestamp(df, last.t)
          /\ equity_curve[Len(equity_curve)].equity = equity
    /\ (last.t >= 0 /\ ~Processed) => Len(equity_curve) = last.neq

\* C10 witness: a bar whose previous-bar context is invalid (a missing
\* Close) appends its equity point and no trade event
C10_Witness ==
    /\ Processed
    /\ ~GetPrevContext(df, last.t).valid
    /\ NewEvents = << >>
    /\ Len(equity_curve) = last.neq + 1

RECURSIVE SharesAfter(_, _)
\* the shares held after the first k events of ledger log: the sum of their
\* signed quantities (the trader starts with no shares)
SharesAfter(log, k) == IF k = 0 THEN 0 ELSE SharesAfter(log, k - 1) + log[k].qty

\* the cash a transaction leaves, from the cash before it and the event's
\* own figures: a BUY (qty > 0) pays notional + fee + tax, a SELL (qty < 0)
\* receives notional - fee - tax
CashAfterEvent(before, ev) ==
    FSub(before, FAdd(FMul(FromInt(ev.qty), ev.price), FAdd(ev.fee_paid, ev.tax_paid)))

\* C12 (ledger faithfulness, append-only): the shares held are the sum of the
\* ledger's signed quantities; every event's equity_after is
\* initial_equity * (cash_after + shares after the event * price) /
\* initial_capital; the cash_after of each event a step appends is the cash
\* before that transaction changed by the transaction's own amounts, and the
\* step's final cash is the last cash_after less the bar's borrow cost; the
\* ledger and the equity curve before the step are prefixes of those after.
C12_LedgerFaithful ==
    /\ shares = SharesAfter(trade_log, Len(trade_log))
    /\ \A k \in 1 .. Len(trade_log) :
          trade_log[k].equity_after =
             FMul(bt_cfg.initial_equity,
                  FDiv(FAdd(trade_log[k].cash_after,
                            FMul(FromInt(SharesAfter(trade_log, k)), trade_log[k].price)),
                       bt_cfg.initial_capital))
    /\ last.t >= 0 =>
          /\ \A k \in 1 .. Len(NewEvents) :
                NewEvents[k].cash_after =
                   CashAfterEvent(IF k = 1 THEN last.pre.cash
                                  ELSE NewEvents[k - 1].cash_after,
                                  NewEvents[k])
          /\ cash = FSub(IF Len(NewEvents) = 0 THEN last.pre.cash
                         ELSE NewEvents[Len(NewEvents)].cash_after,
                         last.borrow)
          /\ last.nlog <= Len(trade_log) /\ last.neq <= Len(equity_curve)
          /\ SubSeq(trade_log, 1, last.nlog) = last.pre.trade_log
          /\ SubSeq(equity_curve, 1, last.neq) = last.pre.equity_curve

\* C12 witness: a step that flattened a position built by an entry and a
\* pyramid add, the third event of the ledger, at a cost (cash_after is not
\* the cash before plus the notional)
C12_Witness ==
    /\ Len(NewEvents) = 1
    /\ last.nlog = 2
    /\ trade_log[2].reason = "PyramidAdd"
    /\ NewEvents[1].qty = -(trade_log[1].qty + trade_log[2].qty)
    /\ shares = 0
    /\ Len(equity_curve) >= 2

\* prices a rebalance may be asked to trade at: missing, infinite, zero,
\* negative, and positive ones below and above the capital
TradePrices == {NaN, PosInf, Zero, FromInt(-1), Frac(1, 2), One, FromInt(3)}

\* the allocation of a rebalance of trader tr at a price: the equity value
\* times the fraction clamped to [0, 1]
Allocation(tr, price, has_delta, delta_frac) ==
    FMul(FAdd(tr.cash, FMul(FromInt(tr.shares), price)),
         PyMax(Zero, PyMin(One, IF has_delta THEN PyMax(Zero, delta_frac)
                                ELSE tr.state.position_frac)))

\* the rebalance buys or sells no share: the price is not finite or not
\* positive, the allocation is not positive, or it is below one share's price
ZeroQuantity(tr, price, has_delta, delta_frac) ==
    \/ ~IsFinite(price)
    \/ FLe(price, Zero)
    \/ FLe(Allocation(tr, price, has_delta, delta_frac), Zero)
    \/ FloorDiv(Allocation(tr, price, has_delta, delta_frac), price) <= 0

\* C13 (zero-quantity trades are skipped): from every reachable trader, a
\* rebalance (entry or add, BUY or SELL) whose price is non-finite or <= 0,
\* whose allocation is <= 0 or buys floor(allocation / price) <= 0 shares
\* returns the trader unchanged (no event, same cash and shares), and any
\* other rebalance appends one event whose qty is not zero and is the change
\* of shares; in the run, every event a step appends has a non-zero qty, a
\* step that changes shares appends an event, and the change of shares is
\* the sum of the new events' quantities.
C13_ZeroQuantitySkipped ==
    /\ \A price \in TradePrices, side \in {"BUY", "SELL"},
          f \in {<<FALSE, NaN>>, <<TRUE, Zero>>, <<TRUE, Frac(1, 2)>>} :
          LET r == ExecuteRebalance(Trader, 0, side, price, "SignalEntry",
                                    IF side = "BUY" THEN 1 ELSE -1, f[1], f[2])
          IN  IF ZeroQuantity(Trader, price, f[1], f[2])
              THEN r = Trader
              ELSE /\ Len(r.trade_log) = Len(trade_log) + 1
                   /\ r.trade_log[Len(r.trade_log)].qty # 0
                   /\ r.shares = shares + r.trade_log[Len(r.trade_log)].qty
                   /\ SubSeq(r.trade_log, 1, Len(trade_log)) = trade_log
    /\ \A k \in 1 .. Len(trade_log) : trade_log[k].qty # 0
    /\ last.t >= 0 =>
          /\ shares # last.pre.shares => Len(NewEvents) >= 1
          /\ shares = last.pre.shares + SharesAfter(NewEvents, Len(NewEvents))
          /\ last.entered /\ ZeroQuantity([last.pre EXCEPT !.state = last.mid],
                                          LastBar.Open, FALSE, NaN)
                => /\ NewEvents = << >>
                   /\ cash = last.pre.cash /\ shares = last.pre.shares

\* C13 witness: an entry whose allocation (equity 2, one unit) is below the
\* price of one share (3) was decided and skipped: no event, cash and shares
\* as before the bar
C13_Witness ==
    /\ last.entered
    /\ last.pre.state.pos = 0
    /\ FGt(Allocation([last.pre EXCEPT !.state = last.mid], LastBar.Open, FALSE, NaN), Zero)
    /\ FloorDiv(Allocation([last.pre EXCEPT !.state = last.mid], LastBar.Open, FALSE, NaN),
                LastBar.Open) = 0
    /\ NewEvents = << >>
    /\ cash = last.pre.cash /\ shares = 0

\* the last bar was processed with an invalid previous-bar context, and
\* neither the forced cover nor a stop fired on it
InvalidContextCase ==
    /\ Processed
    /\ ~GetPrevContext(df, last.t).valid
    /\ ~ShouldForceCoverShort(last.chk, GetBarTimestamp(df, last.t))
    /\ ~last.stop.hit

\* the fields of a position state other than the running extremes
Holding(st) ==
    [pos |-> st.pos, units |-> st.units, entry_price |-> st.entry_price,
     entry_time |-> st.entry_time, entry_index |-> st.entry_index,
     position_frac |-> st.position_frac,
     cooldown_until_index |-> st.cooldown_until_index]

\* C14 as stated: on a processed bar with an invalid context and no forced
\* cover or stop, no trade event is appended, the whole position state, the
\* cash and the shares are unchanged, no borrow cost is deducted and one
\* equity point valued at Close is recorded.
C14_InvalidContextFreezes ==
    InvalidContextCase =>
        /\ NewEvents = << >>
        /\ state = last.pre.state
        /\ cash = last.pre.cash /\ shares = last.pre.shares
        /\ last.borrow = Zero
        /\ OneEquityPointAt(LastBar.Close)

\* C14 (amended): on such a bar no trade event is appended, cash and shares
\* are unchanged, no borrow cost is deducted, one equity point valued at
\* Close is recorded, and the position's direction, units, entry price, time
\* and index, fraction and cooldown index are unchanged; the running
\* extremes are those step 2) leaves (extended by the bar's Open and Close
\* while a position is open, untouched while flat).
C14_InvalidContextSuppresses ==
    InvalidContextCase =>
        /\ NewEvents = << >>
        /\ Holding(state) = Holding(last.pre.state)
        /\ state = IF last.pre.state.pos # 0
                   THEN UpdateHistoryExtrema(last.pre.state, LastBar.Open, LastBar.Close)
                   ELSE last.pre.state
        /\ cash = last.pre.cash /\ shares = last.pre.shares
        /\ last.borrow = Zero
        /\ OneEquityPointAt(LastBar.Close)

\* C14 witness: an invalid-context bar met with shares held, whose Open or
\* Close extended the running extremes
C14_Witness ==
    /\ InvalidContextCase
    /\ shares # 0
    /\ state # last.pre.state
    /\ NewEvents = << >>

\* the last bar flattened a non-flat position: by the forced cover, by a
\* stop, or by a decided target that differs from the direction held
FlattenCase ==
    /\ Processed
    /\ last.chk.pos # 0
    /\ \/ last.path \in {"forced", "stop"}
       \/ last.decided /\ last.target # last.chk.pos

\* the neutral position state after a flatten at bar tt
NeutralAfter(tt) ==
    [pos |-> 0, units |-> 0, entry_price |-> NaN, entry_time |-> None,
     entry_index |-> None, position_frac |-> One, hist_max |-> NegInf,
     hist_min |-> PosInf,
     cooldown_until_index |-> tt + (IF strat_cfg.cooldown_bars > 0
                                    THEN strat_cfg.cooldown_bars ELSE 0),
     best_since_entry |-> NaN, worst_since_entry |-> NaN]

\* C15 (reset on flatten): a bar that flattens a non-flat position (SignalExit,
\* STOP or FORCED_COVER_MAXHOLD) ends with pos = 0, units = 0, entry price,
\* time and index cleared, hist_max / hist_min and best / worst reset to
\* their initial values, shares = 0 and cooldown_until_index =
\* t + max(0, cooldown_bars); and _exit_all called on any reachable trader
\* gives that state with no shares when a position is open, and changes
\* nothing when the state is flat.
C15_ResetOnFlatten ==
    /\ FlattenCase => state = NeutralAfter(last.t) /\ shares = 0
    /\ \A price \in {One, FromInt(3)}, reason \in {"SignalExit", "STOP:LONG"} :
          LET r == ExitAll(Trader, t, t, price, reason, reason # "SignalExit")
          IN  IF state.pos = 0 THEN r = Trader
              ELSE r.state = NeutralAfter(t) /\ r.shares = 0

\* C15 witness: a signal exit of a position that held shares and had moved
\* its extremes, under a cooldown of one bar
C15_Witness ==
    /\ FlattenCase
    /\ "SignalExit" \in NewReasons
    /\ last.pre.shares # 0
    /\ last.chk.best_since_entry # last.chk.worst_since_entry
    /\ state.cooldown_until_index = last.t + 1

\* the previous-bar context the last call of step read
Ctx == GetPrevContext(df, IMax(last.t, 0))

\* the separation threshold is an ATR multiple: the ATR filter is on and the
\* previous ATR is finite and positive
ByAtr == strat_cfg.use_atr_filter /\ IsFinite(Ctx.atr_prev) /\ FGt(Ctx.atr_prev, Zero)

\* the separation of the week and fast averages in favour of direction dir
Separation(dir) ==
    IF dir = 1 THEN FSub(Ctx.sma_week_prev, Ctx.sma_fast_prev)
    ELSE FSub(Ctx.sma_fast_prev, Ctx.sma_week_prev)

\* the separation as a fraction of |fast|, the denominator floored at tiny
RelativeSeparation(dir) ==
    FDiv(Separation(dir),
         IF FGt(Tiny, FAbs(Ctx.sma_fast_prev)) THEN Tiny ELSE FAbs(Ctx.sma_fast_prev))

\* the separation has collapsed to the exit threshold or below
SeparationCollapsed(dir) ==
    IF ByAtr THEN FLe(Separation(dir), FMul(strat_cfg.atr_exit_k, Ctx.atr_prev))
    ELSE FLe(RelativeSeparation(dir), strat_cfg.spread_exit_pct)

\* crossover reversal against direction dir
CrossedAgainst(dir) ==
    IF dir = 1 THEN FGt(Ctx.sma_fast_prev, Ctx.sma_week_prev)
    ELSE FGt(Ctx.sma_week_prev, Ctx.sma_fast_prev)

\* the MACD exit is enabled and the histogram is against direction dir
MacdAgainst(dir) ==
    /\ strat_cfg.use_macd_exit
    /\ IsFinite(Ctx.macd_hist_prev)
    /\ IF dir = 1 THEN FLt(Ctx.macd_hist_prev, Zero) ELSE FGt(Ctx.macd_hist_prev, Zero)

\* the reference average of the previous-close filter
RefMa ==
    IF strat_cfg.prev_close_filter_ref = "week" THEN Ctx.sma_week_prev
    ELSE Ctx.sma_fast_prev

\* the previous-close filter is enabled and the previous close is on the
\* wrong side of the reference average for direction dir
PrevCloseAgainst(dir) ==
    /\ strat_cfg.use_prev_close_filter
    /\ IsFinite(Ctx.close_prev) /\ IsFinite(RefMa)
    /\ IF dir = 1 THEN FLt(Ctx.close_prev, RefMa) ELSE FGt(Ctx.close_prev, RefMa)

\* bars since the entry bar, at the last bar
HeldBars == last.t - last.chk.entry_index

\* the minimum hold has elapsed at the last bar
MinHoldElapsed ==
    HeldBars >= (IF strat_cfg.min_hold_bars > 0 THEN strat_cfg.min_hold_bars ELSE 0)

\* some exit condition of direction dir holds
ExitCondition(dir) ==
    \/ CrossedAgainst(dir) \/ SeparationCollapsed(dir)
    \/ MacdAgainst(dir) \/ PrevCloseAgainst(dir)

\* C16 (signal exit with minimum hold): on a bar that decides a target while
\* a position is open, the target is flat iff the bars held are >=
\* max(0, min_hold_bars) and the crossover has reversed, or the separation is
\* <= the exit threshold, or the enabled MACD exit or the enabled prev-close
\* exit holds; otherwise the target is the direction held; so a SignalExit
\* event is never appended fewer than min_hold_bars bars after the entry bar.
C16_SignalExitRule ==
    /\ last.decided /\ last.chk.pos # 0 =>
          /\ last.target = 0 <=> MinHoldElapsed /\ ExitCondition(last.chk.pos)
          /\ last.target # 0 => last.target = last.chk.pos
    /\ "SignalExit" \in NewReasons =>
          last.t - last.pre.state.entry_index >= strat_cfg.min_hold_bars

\* C16 witness: an exit condition held before the minimum hold of three bars
\* had elapsed and the position was kept, with shares
C16_Witness ==
    /\ last.decided /\ last.chk.pos # 0 /\ shares # 0
    /\ strat_cfg.min_hold_bars = 3
    /\ HeldBars < 3
    /\ ExitCondition(last.chk.pos)
    /\ last.target = last.chk.pos

\* the averages of the previous bar are stacked in direction dir
StackAtPrev(dir) ==
    IF dir = 1
    THEN FGt(Ctx.sma_week_prev, Ctx.sma_fast_prev) /\ FGt(Ctx.sma_fast_prev, Ctx.sma_slow_prev)
    ELSE FGt(Ctx.sma_slow_prev, Ctx.sma_fast_prev) /\ FGt(Ctx.sma_fast_prev, Ctx.sma_week_prev)

\* the separation reaches the entry threshold: an ATR multiple when the ATR
\* filter is on and the previous ATR is finite and positive, else a fraction
\* of |fast|
SeparationOpen(dir) ==
    IF ByAtr THEN FGe(Separation(dir), FMul(strat_cfg.atr_enter_k, Ctx.atr_prev))
    ELSE FGe(RelativeSeparation(dir), strat_cfg.spread_enter_pct)

\* the trend gate of direction dir
TrendGate(dir) ==
    IF dir = 1 THEN strat_cfg.use_long_trend_filter => Ctx.long_term_trend_prev = 1
    ELSE strat_cfg.use_short_trend_filter => Ctx.long_term_trend_prev = -1

\* the MACD regime gate of direction dir
MacdGate(dir) ==
    strat_cfg.use_macd_regime_filter =>
        /\ IsFinite(Ctx.macd_hist_prev)
        /\ IF dir = 1 THEN FGt(Ctx.macd_hist_prev, Zero) ELSE FLt(Ctx.macd_hist_prev, Zero)

\* the stack of direction dir held on each of the N = max(1, confirm_days)
\* bars before the last bar
ConfirmedBefore(dir) ==
    LET N == IF strat_cfg.confirm_days > 1 THEN strat_cfg.confirm_days ELSE 1
    IN  /\ last.t - N >= 0
        /\ \A i \in last.t - N .. last.t - 1 : Stacked(i, dir)

\* the previous-close gate of direction dir
PrevCloseGate(dir) ==
    strat_cfg.use_prev_close_filter /\ IsFinite(Ctx.close_prev) /\ IsFinite(RefMa) =>
        IF dir = 1 THEN FGe(Ctx.close_prev, RefMa) ELSE FLe(Ctx.close_prev, RefMa)

\* all entry conditions of direction dir but the short-enable flag
EntryConditions(dir) ==
    /\ StackAtPrev(dir) /\ SeparationOpen(dir) /\ TrendGate(dir) /\ MacdGate(dir)
    /\ ConfirmedBefore(dir) /\ PrevCloseGate(dir)

\* the last bar decided a target while flat and outside cooldown
FlatDecision ==
    /\ last.decided
    /\ last.chk.pos = 0
    /\ last.t > last.chk.cooldown_until_index

\* C17 (entry rule while flat): on a bar that decides a target while flat and
\* outside cooldown, the target is long iff stack, separation >= entry
\* threshold, trend gate, MACD gate, confirmation and prev-close gate all
\* hold for long; otherwise short iff they all hold for short and enable_short
\* is true; otherwise flat.  The threshold is atr_enter_k * ATR when the ATR
\* filter is on and the previous ATR is finite and positive, else
\* spread_enter_pct of |fast| (floored at a tiny epsilon).
C17_EntryRule ==
    FlatDecision =>
        last.target = IF EntryConditions(1) THEN 1
                      ELSE IF EntryConditions(-1) /\ strat_cfg.enable_short THEN -1
                      ELSE 0

\* C17 witness: a short entered under the fraction-based threshold (no ATR
\* filter) with the short trend filter on
C17_Witness ==
    /\ FlatDecision
    /\ last.target = -1 /\ shares < 0
    /\ ~ByAtr /\ strat_cfg.use_short_trend_filter
    /\ Ctx.long_term_trend_prev = -1

\* C18 (short-enable gate): with enable_short = false, in every reachable
\* state shares >= 0 and pos is 0 or 1, no event of the ledger is a sale that
\* opens or adds to a short (every SELL leaves the trader flat), none has the
\* reason STOP:SHORT or FORCED_COVER_MAXHOLD, no step decides the target -1,
\* and no step deducts a borrow cost (its final cash is the cash its last
\* event left, or the cash before it).
C18_ShortEnableGate ==
    ~strat_cfg.enable_short =>
        /\ shares >= 0
        /\ state.pos \in {0, 1}
        /\ \A k \in 1 .. Len(trade_log) :
              /\ trade_log[k].reason \notin {"STOP:SHORT", "FORCED_COVER_MAXHOLD"}
              /\ trade_log[k].position_after \in {0, 1}
              /\ trade_log[k].side = "SELL" => trade_log[k].position_after = 0
              /\ SharesAfter(trade_log, k) >= 0
        /\ last.target # -1
        /\ last.borrow = Zero
        /\ last.t >= 0 => CashAsTraded

\* C18 witness: with enable_short = false, a flat trader outside cooldown met
\* all the other short entry conditions and stayed flat
C18_Witness ==
    /\ ~strat_cfg.enable_short
    /\ FlatDecision
    /\ EntryConditions(-1)
    /\ last.target = 0 /\ state.pos = 0 /\ NewEvents = << >>

\* the positions in NewEvents of the events with reason r
EventsWith(r) == {k \in 1 .. Len(NewEvents) : NewEvents[k].reason = r}

\* C19 (apply target): on a bar that decides a target different from the
\* direction held, an open position is flattened at the bar's Open with
\* reason SignalExit (one SignalExit event selling or covering all shares,
\* none when no shares were held) and a non-flat target is entered at the
\* Open with reason SignalEntry (direction, entry price and entry index set;
\* one SignalEntry event in the target's direction, none when the allocation
\* buys no share); every event of the bar is priced at the Open; on a bar
\* whose target equals the direction held no SignalExit or SignalEntry event
\* is appended.
C19_ApplyTarget ==
    last.decided =>
        IF last.target # last.chk.pos
        THEN /\ \A k \in 1 .. Len(NewEvents) :
                   /\ NewEvents[k].price = LastBar.Open
                   /\ NewEvents[k].reason \in {"SignalExit", "SignalEntry", "PyramidAdd"}
             /\ last.chk.pos # 0 =>
                   /\ Cardinality(EventsWith("SignalExit"))
                         = (IF last.pre.shares # 0 THEN 1 ELSE 0)
                   /\ \A k \in EventsWith("SignalExit") :
                         k = 1 /\ NewEvents[k].qty = -last.pre.shares
                               /\ NewEvents[k].position_after = 0
                   /\ last.target = 0 => state = NeutralAfter(last.t) /\ shares = 0
             /\ last.chk.pos = 0 => EventsWith("SignalExit") = {}
             /\ last.target # 0 =>
                   /\ last.mid.pos = last.target /\ last.mid.units = 1
                   /\ last.mid.entry_price = LastBar.Open
                   /\ last.mid.entry_index = last.t
                   /\ last.mid.entry_time = GetBarTimestamp(df, last.t)
                   /\ last.chk.pos = 0 =>
                         Cardinality(EventsWith("SignalEntry"))
                            = (IF ZeroQuantity([last.pre EXCEPT !.state = last.mid],
                                               LastBar.Open, FALSE, NaN)
                               THEN 0 ELSE 1)
                   /\ \A k \in EventsWith("SignalEntry") :
                         /\ NewEvents[k].qty * last.target > 0
                         /\ NewEvents[k].side = (IF last.target = 1 THEN "BUY" ELSE "SELL")
             /\ last.target = 0 => EventsWith("SignalEntry") = {}
        ELSE EventsWith("SignalExit") = {} /\ EventsWith("SignalEntry") = {}

\* C19 witness: a position with shares, entered at an Open that differed
\* from the Close, is exited at an Open that differs from the Close
C19_Witness ==
    /\ last.decided /\ last.target = 0 /\ last.chk.pos # 0
    /\ Cardinality(EventsWith("SignalExit")) = 1
    /\ LastBar.Open # LastBar.Close
    /\ last.nlog = 1
    /\ trade_log[1].reason = "SignalEntry"
    /\ trade_log[1].price # GetOhlc(df, last.chk.entry_index).Close

\* the last bar completed the normal path: processed, no forced cover, no
\* stop, valid context
NormalCase ==
    /\ Processed
    /\ ~ShouldForceCoverShort(last.chk, GetBarTimestamp(df, last.t))
    /\ ~last.stop.hit
    /\ GetPrevContext(df, last.t).valid

\* the cash the last bar's transactions left, before any borrow cost
CashTraded ==
    IF Len(NewEvents) = 0 THEN last.pre.cash ELSE NewEvents[Len(NewEvents)].cash_after

\* |shares| * Close * (annual borrow rate / day count) at the last bar
BorrowCost ==
    FMul(FMul(FromInt(IF shares < 0 THEN -shares ELSE shares), LastBar.Close),
         FDiv(cost_cfg.short_borrow_annual_rate,
              FromInt(cost_cfg.short_borrow_day_count)))

\* C20 as stated: a bar that completes the normal path and ends with shares
\* < 0 reduces the cash by exactly |shares| * Close * dailyBorrowRate; a bar
\* that ends flat or long, or by stop, forced cover or invalid context,
\* deducts nothing.
C20_BorrowOnEveryShortBar ==
    Processed =>
        IF NormalCase /\ shares < 0
        THEN cash = FSub(CashTraded, BorrowCost)
        ELSE cash = CashTraded

\* C20 (amended): a bar that completes the normal path, ends with shares < 0
\* and has a finite Close reduces the cash by exactly |shares| * Close *
\* dailyBorrowRate (a positive amount), the entry bar of the short included;
\* every other processed bar (Close missing, flat or long at the end, stop,
\* forced cover, invalid context) deducts nothing.
C20_BorrowAccrual ==
    Processed =>
        IF NormalCase /\ shares < 0 /\ IsFinite(LastBar.Close)
        THEN /\ cash = FSub(CashTraded, BorrowCost)
             /\ last.borrow = BorrowCost
             /\ FGt(BorrowCost, Zero)
        ELSE cash = CashTraded /\ last.borrow = Zero

\* C20 witness: the bar on which a short was entered is charged the borrow
\* cost of its first day
C20_Witness ==
    /\ NormalCase
    /\ last.entered /\ last.target = -1
    /\ shares < 0
    /\ FLt(cash, CashTraded)

\* the cash before the k-th event the last call of step appended
CashBefore(k) == IF k = 1 THEN last.pre.cash ELSE NewEvents[k - 1].cash_after

\* the shares held before the k-th event the last call of step appended
SharesBefore(k) == last.pre.shares + SharesAfter(NewEvents, k - 1)

\* the fraction of the equity one unit is allocated: 1 / max(1, max_units),
\* clamped to [0, 1]
UnitFraction ==
    LET f == Frac(1, IF strat_cfg.max_units > 1 THEN strat_cfg.max_units ELSE 1)
    IN  IF FLt(f, Zero) THEN Zero ELSE IF FGt(f, One) THEN One ELSE f

\* C21 (execution accounting): every event a step appends has notional =
\* |qty| * price, fee = commission_rate * notional, tax = stt_rate * notional
\* on a SELL and 0 on a BUY (short covers included); a BUY has qty > 0 and
\* leaves cash - (notional + fee + tax), a SELL has qty < 0 and leaves
\* cash + (notional - fee - tax); an entry or add trades
\* floor(frac * (cash + shares * price) / price) shares, frac in [0, 1]; a
\* flatten (SignalExit, STOP, FORCED_COVER_MAXHOLD) trades all |shares| and
\* leaves no shares.
C21_ExecutionAccounting ==
    last.t >= 0 =>
        \A k \in 1 .. Len(NewEvents) :
            LET ev == NewEvents[k]
                qty_abs == IF ev.qty < 0 THEN -ev.qty ELSE ev.qty
                equity_value == FAdd(CashBefore(k), FMul(FromInt(SharesBefore(k)), ev.price))
            IN  /\ ev.side \in {"BUY", "SELL"}
                /\ ev.notional = FMul(FromInt(qty_abs), ev.price)
                /\ ev.fee_paid = FMul(cost_cfg.commission_rate, ev.notional)
                /\ ev.tax_paid = IF ev.side = "SELL"
                                 THEN FMul(cost_cfg.stt_rate, ev.notional) ELSE Zero
                /\ IF ev.side = "BUY"
                   THEN /\ ev.qty > 0
                        /\ ev.cash_after =
                              FSub(CashBefore(k),
                                   FAdd(FAdd(ev.notional, ev.fee_paid), ev.tax_paid))
                   ELSE /\ ev.qty < 0
                        /\ ev.cash_after =
                              FAdd(CashBefore(k),
                                   FSub(FSub(ev.notional, ev.fee_paid), ev.tax_paid))
                /\ IF ev.reason \in {"SignalEntry", "PyramidAdd"}
                   THEN qty_abs = FloorDiv(FMul(UnitFraction, equity_value), ev.price)
                   ELSE /\ ev.qty = -SharesBefore(k)
                        /\ SharesBefore(k) + ev.qty = 0
                        /\ k = Len(NewEvents) => shares = 0

\* C21 witness: a short built by an entry and an add is covered: a BUY that
\* pays a commission and no tax
C21_Witness ==
    /\ Len(NewEvents) = 1 /\ last.nlog = 2
    /\ trade_log[2].reason = "PyramidAdd"
    /\ NewEvents[1].side = "BUY" /\ NewEvents[1].position_after = 0
    /\ FGt(NewEvents[1].fee_paid, Zero)
    /\ NewEvents[1].tax_paid = Zero
    /\ FGt(trade_log[1].tax_paid, Zero)

\* the valuation mode is CLOSE in some letter case
CloseMode == bt_cfg.valuation_mode \in {"CLOSE", "close", "Close"}

\* C22 (valuation mode): every processed bar t has a bar t + 1; a bar that
\* completes the normal path records one equity point valued at its Close
\* when valuation_mode is CLOSE in any letter case, and at the Open of bar
\* t + 1 otherwise; a bar that ends by forced cover, stop or invalid context
\* records one equity point valued at its Close in either mode.
C22_ValuationMode ==
    Processed =>
        /\ last.t + 1 <= NumBars(df) - 1
        /\ OneEquityPointAt(IF NormalCase /\ ~CloseMode
                            THEN GetOhlc(df, last.t + 1).Open
                            ELSE LastBar.Close)

\* C22 witness: a bar on the normal path with shares held under the
\* next-open mode, the next Open differing from the Close
C22_Witness ==
    /\ NormalCase
    /\ bt_cfg.valuation_mode = "NEXT_OPEN"
    /\ shares # 0
    /\ GetOhlc(df, last.t + 1).Open # LastBar.Close
    /\ equity # EquityNorm(Trader, LastBar.Close)

\* ---- C23: the rising-series scenario ----

\* the closes of the table rise strictly from each bar to the next
RisingSeries ==
    \A i \in 1 .. NumBars(df) - 1 : FGt(GetOhlc(df, i).Close, GetOhlc(df, i - 1).Close)

\* a strictly rising series under the defaults with the ATR filter disabled
RisingCase == RisingSeries /\ strat_cfg = SpreadStrategy

\* the ledger positions of the entries in direction dir, and of the signal exits
EntriesOf(dir) ==
    {k \in 1 .. Len(trade_log) :
        trade_log[k].reason = "SignalEntry" /\ trade_log[k].qty * dir > 0}
SignalExits == {k \in 1 .. Len(trade_log) : trade_log[k].reason = "SignalExit"}

\* the relative separation of the week and fast averages at row i
SpreadAtRow(i) ==
    LET c == GetPrevContext(df, i + 1)
    IN  FDiv(FSub(c.sma_week_prev, c.sma_fast_prev), FAbs(c.sma_fast_prev))

\* some row a decision can read carries the entry separation, with the
\* confirmation window before it inside the table
ThresholdReached ==
    \E i \in 1 + strat_cfg.confirm_days .. NumBars(df) - 3 :
        FGe(SpreadAtRow(i), strat_cfg.spread_enter_pct)

\* run_full_backtest has made its last call of step
RunComplete == t = NumBars(df) - 1

RunAlone(k) == RunFullBacktest(df, FreshTrader, 0, k)

\* each instance holds what it holds when run alone
AsRunAlone == Trader = RunAlone(t) /\ peer.tr = RunAlone(peer.t)

\* a step leaves the table and every config as they were, and changes the
\* attributes of one instance only
OwnStateOnly ==
    /\ UNCHANGED <<df, strat_cfg, cost_cfg, bt_cfg>>
    /\ peer' # peer => UNCHANGED <<state, cash, shares, equity, trade_log, equity_curve, t>>
    /\ t' # t => peer' = peer

Recognized(d) == {k \in DOMAIN ItemsOf(d) : k \in DOMAIN ParamMapping}

\* d without its key k
WithoutKey(d, k) == ParamsDict([j \in DOMAIN d.items \ {k} |-> d.items[j]])

\* the mode strings in lower case
LowerCaseModes == {"week", "fast", "hist", "cross"}

\* what the claim says of the config imported from d
ImportedAsClaimed(d) ==
    LET cfg == FromParamsDict(d)
        items == ItemsOf(d)
    IN  /\ DOMAIN cfg = DOMAIN DefaultStrategy
        /\ \A k \in Recognized(d) :
              IF k \in {"MACDSignalMode", "PrevCloseFilterRef"} /\ items[k].is_str
              THEN /\ cfg[ParamMapping[k]] = Lower(items[k].v)
                   /\ cfg[ParamMapping[k]] \in LowerCaseModes
              ELSE cfg[ParamMapping[k]] = items[k].v
        /\ \A f \in DOMAIN DefaultStrategy \ {ParamMapping[k] : k \in Recognized(d)} :
              cfg[f] = DefaultStrategy[f]
        /\ \A k \in DOMAIN items \ DOMAIN ParamMapping :
              FromParamsDict(WithoutKey(d, k)) = cfg
        /\ Recognized(d) = {} => cfg = DefaultStrategy

\* C25: from_params_dict returns a config for every dict; a key outside the
\* mapping changes nothing; each recognized key's field holds the supplied
\* value, lower-cased when it is a string of MACDSignalMode or
\* PrevCloseFilterRef; every other field holds its default; None and the empty
\* dict give the default config; and the config of the run is the import of
\* one of the run's dicts
C25_ParameterImport ==
    /\ \A d \in ParamDicts : ImportedAsClaimed(d)
    /\ FromParamsDict(NoParams) = DefaultStrategy
    /\ FromParamsDict(ParamsDict([k \in {} |-> PyObj(0)])) = DefaultStrategy
    /\ \E d \in RunParams : strat_cfg = FromParamsDict(d)

\* a run that has traded under the config imported from a dict with an
\* upper-case reference, an upper-case mode and two keys outside the mapping
C25_Witness ==
    /\ strat_cfg = FromParamsDict(ParamsDict(
          [ConfirmDays |-> PyObj(1), MinHoldDays |-> PyObj(1),
           UsePrevCloseFilter |-> PyObj(TRUE), PrevCloseFilterRef |-> PyStr("WEEK"),
           MACDSignalMode |-> PyStr("HIST"), confirm_days |-> PyObj(5),
           Foo |-> PyStr("bar")]))
    /\ strat_cfg.prev_close_filter_ref = "week" /\ strat_cfg.macd_signal_mode = "hist"
    /\ strat_cfg.confirm_days = 1 /\ strat_cfg.use_atr_filter
    /\ Len(trade_log) > 0

\* ---- C26: termination ----

\* the number of iterations of run_full_backtest's loop
LoopLength == IMax(0, NumBars(df) - 1)

\* one iteration: step is called with the loop index, which is inside the
\* range and then advances by one
NextCall == t < LoopLength /\ last'.t = t /\ t' = t + 1

\* C26: on every table of n bars the run reaches the loop index max(0, n - 1),
\* where no iteration is left, after calling step once for each
\* t = 0, 1, ..., n - 2 in increasing order
C26_Termination == <>(t = LoopLength) /\ [][NextCall]_vars

\* a complete run over a table of NShort bars that has traded: one equity
\* point for each of the bars 2 .. n - 2
C26_Witness ==
    /\ NumBars(df) = NShort /\ t = LoopLength
    /\ Len(equity_curve) = NShort - 3
    /\ Len(trade_log) > 0

\* ---- C27: the daily borrow rate ----

\* the number short_borrow_daily_rate divides by, as the claim states it
BorrowDivisor ==
    IF cost_cfg.short_borrow_day_count > 0 THEN cost_cfg.short_borrow_day_count ELSE 365

\* C27: short_borrow_daily_rate is the annual rate over the day count when
\* that is positive and over 365 when it is zero or negative, so the divisor
\* is positive and the rate finite; a bar that ends short on the normal path
\* is charged |shares| * Close at that rate
C27_DailyBorrowRate ==
    /\ BorrowDivisor > 0
    /\ ShortBorrowDailyRate = FDiv(cost_cfg.short_borrow_annual_rate, FromInt(BorrowDivisor))
    /\ IsFinite(ShortBorrowDailyRate)
    /\ NormalCase /\ shares < 0 =>
          last.borrow = FMul(FMul(FromInt(-shares), LastBar.Close),
                             FDiv(cost_cfg.short_borrow_annual_rate,
                                  FromInt(BorrowDivisor)))

\* a short held over a bar under a non-positive day count, charged at
\* annual / 365
C27_Witness ==
    /\ cost_cfg.short_borrow_day_count <= 0
    /\ NormalCase /\ shares < 0
    /\ last.borrow = FMul(FMul(FromInt(-shares), LastBar.Close),
                          FDiv(cost_cfg.short_borrow_annual_rate, FromInt(365)))
    /\ FGt(last.borrow, Zero)

\* ---- C28: PrevContext is the causality boundary ----

\* what the claim says of get_prev_context(i) on the table of the run
PrevContextAsClaimed(i) ==
    LET c == GetPrevContext(df, i)
    IN  IF i < 2 \/ i >= NumBars(df) THEN ~c.valid
        ELSE LET prev == Row(df, i - 1)
             IN  /\ c.close_prev = prev.Close
                 /\ c.sma_week_prev = prev.smaWeek
                 /\ c.sma_fast_prev = prev.smaFast
                 /\ c.sma_slow_prev = prev.smaSlow
                 /\ c.atr_prev = prev.atr
                 /\ c.long_term_trend_prev = prev.longTermTrend
                 /\ c.macd_line_prev = prev.macdLine
                 /\ c.macd_signal_prev = prev.macdSignal
                 /\ c.macd_hist_prev = prev.macdHist
                 /\ c.valid <=> /\ IsFinite(prev.smaWeek) /\ IsFinite(prev.smaFast)
                                /\ IsFinite(prev.smaSlow)

\* C28: on a table of n >= 1 bars get_prev_context(i) is invalid for i < 2
\* (negative i included) and for i >= n; for 2 <= i < n each of its fields is
\* the column value of row i - 1 and it is valid exactly when the week, fast
\* and slow averages of row i - 1 are all finite; the context a processed bar
\* read is the one of its own index
C28_PrevContextBoundary ==
    /\ \A i \in -1 .. NumBars(df) + 1 : PrevContextAsClaimed(i)
    /\ Processed => last.decided = (NormalCase /\ Ctx.valid)

\* a processed bar whose context is invalid because the week average of the
\* row before is missing although the bar's own is finite, on a table that
\* also has a valid context differing from its own row
C28_Witness ==
    /\ Processed /\ ~Ctx.valid
    /\ ~IsFinite(Row(df, last.t - 1).smaWeek) /\ IsFinite(Row(df, last.t).smaWeek)
    /\ \E i \in 2 .. NumBars(df) - 1 :
          /\ GetPrevContext(df, i).valid
          /\ GetPrevContext(df, i).close_prev # Row(df, i).Close

\* ---- C29: the extrema update ----

\* the position the last call of step found is still open after it
StillOpen ==
    /\ last.pre.state.pos # 0
    /\ state.pos = last.pre.state.pos
    /\ state.entry_index = last.pre.state.entry_index

\* the trailing stop level of a long whose best price is h
TrailLevel(h) == FMul(h, FSub(One, strat_cfg.long_trail_stop))

\* C29: an entry sets hist_max (long) or hist_min (short) to the entry price;
\* a processed bar that starts in a long raises hist_max to
\* max(hist_max, max(Open, Close)), one that starts in a short lowers hist_min
\* to min(hist_min, min(Open, Close)), before the stop is checked (the stop
\* reference is the updated value); the rest of the bar leaves the value
\* alone while the position stays open; so hist_max and, for a trailing
\* fraction of at most 1, the trailing stop level never decrease within a
\* long, and hist_min never increases within a short
C29_ExtremaUpdate ==
    Processed =>
        /\ last.entered /\ state.pos = 1 =>
              state.hist_max = LastBar.Open /\ state.hist_max = state.entry_price
        /\ last.entered /\ state.pos = -1 =>
              state.hist_min = LastBar.Open /\ state.hist_min = state.entry_price
        /\ last.pre.state.pos = 1 =>
              /\ last.chk.hist_max
                    = PyMax(last.pre.state.hist_max, PyMax(LastBar.Open, LastBar.Close))
              /\ last.chk.hist_min = last.pre.state.hist_min
              /\ FGe(last.chk.hist_max, last.pre.state.hist_max)
              /\ FLe(strat_cfg.long_trail_stop, One) =>
                    FGe(TrailLevel(last.chk.hist_max), TrailLevel(last.pre.state.hist_max))
              /\ last.stop.hit => last.stop.hist_ref = last.chk.hist_max
        /\ last.pre.state.pos = -1 =>
              /\ last.chk.hist_min
                    = PyMin(last.pre.state.hist_min, PyMin(LastBar.Open, LastBar.Close))
              /\ last.chk.hist_max = last.pre.state.hist_max
              /\ FLe(last.chk.hist_min, last.pre.state.hist_min)
              /\ last.stop.hit => last.stop.hist_ref = last.chk.hist_min
        /\ last.pre.state.pos = 0 =>
              /\ last.chk.hist_max = last.pre.state.hist_max
              /\ last.chk.hist_min = last.pre.state.hist_min
        /\ StillOpen =>
              state.hist_max = last.chk.hist_max /\ state.hist_min = last.chk.hist_min

\* a long that stays open over a bar which raised its hist_max above the
\* entry price, by an Open above the Close
C29_Witness ==
    /\ Processed /\ StillOpen /\ state.pos = 1
    /\ FGt(state.hist_max, state.entry_price)
    /\ FGt(state.hist_max, last.pre.state.hist_max)
    /\ FGt(LastBar.Open, LastBar.Close)

\* ---- C30: pyramiding ----

\* the PyramidAdd events of the last call of step
PyramidAdds == EventsWith("PyramidAdd")

\* the condition of _maybe_add_unit on the state the bar's entries and exits
\* left: in a position, below the unit limit, and the return of the Open over
\* the entry price at the step return or above
AddCondition ==
    /\ last.mid.pos # 0
    /\ last.mid.units < IMax(1, strat_cfg.max_units)
    /\ ~IsNaN(last.mid.entry_price)
    /\ FGe(FMul(FromInt(last.mid.pos),
                FSub(FDiv(LastBar.Open, last.mid.entry_price), One)),
           strat_cfg.pyramid_step_return)

\* C30: a bar adds a unit exactly when it completes the normal path and the
\* condition of _maybe_add_unit holds, and then one unit only; a PyramidAdd
\* event occurs on such a bar only, at most once, as the bar's last event, at
\* the bar's Open and on the side of the position; with max_units = 1 (or
\* less) the ledger never holds a PyramidAdd and units never exceed 1,
\* whatever pyramid_step_return is
C30_Pyramiding ==
    /\ Processed =>
          /\ Cardinality(PyramidAdds) <= 1
          /\ \A k \in PyramidAdds :
                /\ k = Len(NewEvents)
                /\ NewEvents[k].price = LastBar.Open
                /\ NewEvents[k].side = (IF last.mid.pos = 1 THEN "BUY" ELSE "SELL")
          /\ PyramidAdds # {} => NormalCase /\ AddCondition
          /\ NormalCase =>
                state.units = last.mid.units + (IF AddCondition THEN 1 ELSE 0)
    /\ strat_cfg.max_units <= 1 =>
          /\ \A k \in 1 .. Len(trade_log) : trade_log[k].reason # "PyramidAdd"
          /\ state.units <= 1

\* a single-unit run in a position whose Open satisfies the step return: no
\* unit and no event is added
C30_Witness ==
    /\ strat_cfg.max_units = 1
    /\ NormalCase /\ state.pos # 0 /\ shares # 0 /\ ~last.entered
    /\ FGe(FMul(FromInt(last.mid.pos),
                FSub(FDiv(LastBar.Open, last.mid.entry_price), One)),
           strat_cfg.pyramid_step_return)
    /\ state.units = 1 /\ NewEvents = << >>

\* ---- C31: boundary bars are skipped ----

\* the timestamps of the bars step processes: 2 .. n - 2
ProcessedStamps == {GetBarTimestamp(df, i) : i \in 2 .. NumBars(df) - 2}

\* indexes below 2 and above n - 2
BoundaryIndexes == {-1, 0, 1} \cup {NumBars(df) - 1, NumBars(df), NumBars(df) + 1}

\* C31: step(t) with t < 2 or t > n - 2 leaves the trader as it was (state,
\* cash, shares, equity, ledger, equity curve), in the run and when called at
\* any point of it; no equity point and no trade event carries the timestamp
\* of bar 0, bar 1 or the last bar; a position open when the loop ends stays
\* open
C31_BoundaryBarsSkipped ==
    /\ \A tt \in BoundaryIndexes : StepOutcome(df, Trader, tt).tr = Trader
    /\ (last.t >= 0 /\ ~Processed) => Trader = last.pre
    /\ \A k \in 1 .. Len(equity_curve) : equity_curve[k].timestamp \in ProcessedStamps
    /\ \A k \in 1 .. Len(trade_log) : trade_log[k].timestamp \in ProcessedStamps
    /\ Len(equity_curve) <= IMax(0, NumBars(df) - 3)

\* a complete run that ends in a position entered at the last processed bar
C31_Witness ==
    /\ NumBars(df) = NShort /\ t = LoopLength
    /\ state.pos # 0 /\ shares # 0
    /\ state.entry_index = NumBars(df) - 2
    /\ Len(equity_curve) = NumBars(df) - 3

\* ---- C32: no in-bar reversal ----

\* the entry conditions of the direction opposite to the position hold at the
\* decision of the last call of step
OppositeEntryOpen ==
    /\ last.decided /\ last.chk.pos # 0
    /\ StackAtPrev(-last.chk.pos) /\ SeparationOpen(-last.chk.pos)
    /\ TrendGate(-last.chk.pos) /\ ConfirmedBefore(-last.chk.pos)

\* C32: a decision made in a position is that position or flat, never the
\* opposite direction; an entry is made only on a bar that started flat; no
\* bar has both a SignalExit and a SignalEntry; with max_units = 1 a call of
\* step appends at most one trade event
C32_NoInBarReversal ==
    Processed =>
        /\ last.decided /\ last.chk.pos # 0 => last.target \in {0, last.chk.pos}
        /\ last.entered => last.pre.state.pos = 0 /\ last.pre.shares = 0
        /\ "SignalEntry" \in NewReasons => last.pre.state.pos = 0
        /\ ~({"SignalExit", "SignalEntry"} \subseteq NewReasons)
        /\ strat_cfg.max_units <= 1 => Len(NewEvents) <= 1

\* a long closed by a signal exit on a bar where the short entry conditions
\* hold: the bar ends flat with the exit as its only event
C32_Witness ==
    /\ Processed /\ OppositeEntryOpen /\ last.chk.pos = 1 /\ strat_cfg.enable_short
    /\ last.target = 0 /\ state.pos = 0 /\ shares = 0
    /\ Len(NewEvents) = 1 /\ NewEvents[1].reason = "SignalExit"


\* equality of two floats as the program's == decides it: false when either
\* side is NaN
SameNumber(a, b) == FLe(a, b) /\ FLe(b, a)

\* C33: trade value conservation: every executed transaction (entry, add or
\* flatten) changes the account's value marked at the trade price by exactly
\* minus its costs: cash_after + shares_after * price
\*                  = cash_before + shares_before * price - fee - tax
C33_TradeValueConservation ==
    Processed =>
        \A k \in 1 .. Len(NewEvents) :
            LET ev == NewEvents[k]
                before == FAdd(CashBefore(k), FMul(FromInt(SharesBefore(k)), ev.price))
                after == FAdd(ev.cash_after,
                              FMul(FromInt(SharesBefore(k) + ev.qty), ev.price))
            IN  SameNumber(after, FSub(FSub(before, ev.fee_paid), ev.tax_paid))


\* the stop events the last call of step appended
StopEvents ==
    {k \in 1 .. Len(NewEvents) : NewEvents[k].reason \in {"STOP:LONG", "STOP:SHORT"}}

\* the last bar's range spans its Open and its Close
OrderedBar ==
    /\ FLe(LastBar.Low, LastBar.Open) /\ FLe(LastBar.Open, LastBar.High)
    /\ FLe(LastBar.Low, LastBar.Close) /\ FLe(LastBar.Close, LastBar.High)

\* C34: stop fill is a tradable price: whenever a stop fires on a bar with
\* Low <= Open, Close <= High, the fill price recorded in the STOP:LONG or
\* STOP:SHORT event lies within that bar's [Low, High] range
C34_StopFillTradable ==
    (Processed /\ OrderedBar) =>
        \A k \in StopEvents :
            /\ FLe(LastBar.Low, NewEvents[k].price)
            /\ FLe(NewEvents[k].price, LastBar.High)


\* C35: buying power: starting from non-negative cash, a long entry from
\* flat never drives the cash below zero: notional + fee + tax of the
\* quantity bought never exceeds the cash held before the trade, for every
\* commission_rate >= 0
C35_BuyingPower ==
    (/\ Processed
     /\ last.pre.state.pos = 0 /\ last.pre.shares = 0
     /\ FGe(last.pre.cash, Zero)
     /\ FGe(cost_cfg.commission_rate, Zero)) =>
        \A k \in 1 .. Len(NewEvents) :
            LET ev == NewEvents[k]
            IN  (ev.reason = "SignalEntry" /\ ev.side = "BUY") =>
                    /\ FLe(FAdd(FAdd(ev.notional, ev.fee_paid), ev.tax_paid), CashBefore(k))
                    /\ FGe(ev.cash_after, Zero)


\* the second run was made under a config whose unused fields differ
SecondRunDone ==
    /\ t = LoopLength /\ peer.t = LoopLength
    /\ strat_cfg \notin RepeatedStrategies

\* C36: unused parameters do not interfere: a run under a StrategyConfig
\* that differs only in give_up_max_bars, give_up_drawdown_pct,
\* macd_signal_mode, use_macd_size_scaling, macd_size_min, macd_size_max or
\* macd_size_atr_k produces, bar by bar, the same equity curve, the same
\* trade ledger and the same account as the first run
C36_UnusedParameters ==
    (t = LoopLength /\ strat_cfg \notin RepeatedStrategies) =>
        /\ peer.tr.trade_log = SubSeq(trade_log, 1, Len(peer.tr.trade_log))
        /\ peer.tr.equity_curve = SubSeq(equity_curve, 1, Len(peer.tr.equity_curve))
        /\ (peer.t = LoopLength => peer.tr = Trader)

C36_Witness ==
    /\ SecondRunDone
    /\ strat_cfg.use_macd_regime_filter
    /\ strat_cfg.give_up_max_bars = 2 /\ strat_cfg.macd_signal_mode = "hist"
    /\ strat_cfg.use_macd_size_scaling
    /\ Len(trade_log) >= 2
    /\ \E k \in 1 .. Len(trade_log) : trade_log[k].reason = "SignalEntry"


\* C37: output ordering: the equity curve's timestamps are strictly
\* increasing and the trade ledger's are non-decreasing; every event
\* appended during step(t) carries bar t's timestamp, and by the end of that
\* step the equity curve holds a point with the same timestamp
C37_OutputOrdering ==
    /\ \A k \in 1 .. Len(equity_curve) - 1 :
          equity_curve[k].timestamp < equity_curve[k + 1].timestamp
    /\ \A k \in 1 .. Len(trade_log) - 1 :
          trade_log[k].timestamp <= trade_log[k + 1].timestamp
    /\ last.t >= 0 =>
          \A k \in 1 .. Len(NewEvents) :
              /\ NewEvents[k].timestamp = GetBarTimestamp(df, last.t)
              /\ \E j \in 1 .. Len(equity_curve) :
                    equity_curve[j].timestamp = NewEvents[k].timestamp

C37_Witness ==
    /\ RunComplete
    /\ Len(equity_curve) >= 3
    /\ Len(NewEvents) >= 1
    /\ \E k \in 1 .. Len(trade_log) - 1 :
          trade_log[k].timestamp < trade_log[k + 1].timestamp
    /\ \E k \in 1 .. Len(equity_curve) - 1 :
          equity_curve[k + 1].timestamp - equity_curve[k].timestamp > 1


\* the last call of step processed a bar on which the account was flat
\* before the bar and no entry was executed
FlatBar ==
    /\ Processed
    /\ last.pre.state.pos = 0 /\ last.pre.shares = 0
    /\ Len(NewEvents) = 0

\* C38: flat bars leave the account untouched: on a processed bar where the
\* position is flat before the bar and no entry is executed, cash and shares
\* are unchanged and the recorded normalized equity equals
\* initial_equity * cash / initial_capital, the same value as on the previous
\* flat bar, whatever the bar's prices are
C38_FlatBarsUntouched ==
    FlatBar =>
        /\ cash = last.pre.cash /\ shares = 0
        /\ Len(equity_curve) = last.neq + 1
        /\ SameNumber(equity_curve[Len(equity_curve)].equity,
                      FDiv(FMul(bt_cfg.initial_equity, cash), bt_cfg.initial_capital))
        /\ last.neq >= 1 =>
              SameNumber(equity_curve[Len(equity_curve)].equity,
                         equity_curve[last.neq].equity)

===========================================================================
